---------------------------- MODULE Spec2Model ----------------------------
(***************************************************************************)
(* A model of openapi-to-mcp: the compilation of an OpenAPI document into  *)
(* tools (src/src/openapi-to-tools.ts) and the invocation of the tools'    *)
(* handlers, the combination of the instruction texts                      *)
(* (instructions-loader) and the session-keeping HTTP server               *)
(* (src/src/server.ts).                                                    *)
(*                                                                         *)
(* Strings are sequences of one-character strings, so that the regular     *)
(* expressions and the case conversions of the source act on characters.   *)
(***************************************************************************)
EXTENDS Integers, Sequences, FiniteSets, TLC

VARIABLES
    spec,        \* the parsed OpenAPI document handed to openApiToTools
    config,      \* includeEndpoints, excludeEndpoints, toolPrefix
    compiled,    \* whether openApiToTools has returned
    nameCount,   \* the name-count map of the latest openApiToTools call
    tools,       \* the tool list returned by the latest openApiToTools call
    calls,       \* the invocations of tool handlers, by invocation
    backend,     \* per invocation, the request the HTTP client was handed
                 \* and the outcome the backend gave to that request
    instructions,\* the texts main hands to combineInstructions and its result
    sessions,    \* the session map of the server: session id -> session data
    requests,    \* the HTTP requests handleMcpRequest handles, by request
    pairs        \* the server/transport pairs createServerAndTransport made

toolVars == <<spec, config, compiled, nameCount, tools, calls, backend>>
serverVars == <<instructions, sessions, requests, pairs>>
vars == <<toolVars, serverVars>>

(***************************************************************************)
(* Bounds of the model.                                                    *)
(***************************************************************************)
MaxPaths == 2
MaxCalls == 2

(***************************************************************************)
(* Characters and strings.                                                 *)
(***************************************************************************)
UpperToLower ==
    ("A" :> "a") @@ ("B" :> "b") @@ ("C" :> "c") @@ ("D" :> "d") @@ ("E" :> "e") @@
    ("F" :> "f") @@ ("G" :> "g") @@ ("H" :> "h") @@ ("I" :> "i") @@ ("J" :> "j") @@
    ("K" :> "k") @@ ("L" :> "l") @@ ("M" :> "m") @@ ("N" :> "n") @@ ("O" :> "o") @@
    ("P" :> "p") @@ ("Q" :> "q") @@ ("R" :> "r") @@ ("S" :> "s") @@ ("T" :> "t") @@
    ("U" :> "u") @@ ("V" :> "v") @@ ("W" :> "w") @@ ("X" :> "x") @@ ("Y" :> "y") @@
    ("Z" :> "z")

\* String.prototype.toLowerCase
toLowerCase(s) ==
    [i \in 1..Len(s) |->
        IF s[i] \in DOMAIN UpperToLower THEN UpperToLower[s[i]] ELSE s[i]]

\* s.replace(/^\//, ''): one leading slash is removed
StripLeadingSlash(s) ==
    IF Len(s) > 0 /\ s[1] = "/" THEN Tail(s) ELSE s

\* s.replace(/_$/, ''): one trailing underscore is removed
StripTrailingUnderscore(s) ==
    IF Len(s) > 0 /\ s[Len(s)] = "_" THEN SubSeq(s, 1, Len(s) - 1) ELSE s

\* the rest of s after its leading run of slashes
RECURSIVE DropSlashes(_)
DropSlashes(s) ==
    IF Len(s) > 0 /\ s[1] = "/" THEN DropSlashes(Tail(s)) ELSE s

\* s.replace(/\/+/g, '_'): every run of slashes becomes one underscore
RECURSIVE CollapseSlashes(_)
CollapseSlashes(s) ==
    IF s = <<>> THEN <<>>
    ELSE IF Head(s) = "/" THEN <<"_">> \o CollapseSlashes(DropSlashes(s))
    ELSE <<Head(s)>> \o CollapseSlashes(Tail(s))

\* the index of the first "}" of s, 0 when there is none
FirstClose(s) ==
    IF \E i \in 1..Len(s) : s[i] = "}"
    THEN CHOOSE i \in 1..Len(s) :
            s[i] = "}" /\ \A j \in 1..(i - 1) : s[j] # "}"
    ELSE 0

\* s.replace(/\{[^}]+\}/g, ''): "{", one or more characters other than "}", "}"
RECURSIVE RemovePathParams(_)
RemovePathParams(s) ==
    IF s = <<>> THEN <<>>
    ELSE IF Head(s) = "{" /\ FirstClose(Tail(s)) >= 2
         THEN RemovePathParams(SubSeq(s, FirstClose(Tail(s)) + 2, Len(s)))
         ELSE <<Head(s)>> \o RemovePathParams(Tail(s))

(***************************************************************************)
(* openapi-to-tools.ts: paths, keys, names.                                *)
(***************************************************************************)
HTTP_METHODS ==
    << <<"g","e","t">>, <<"p","o","s","t">>, <<"p","u","t">>,
       <<"p","a","t","c","h">>, <<"d","e","l","e","t","e">>,
       <<"h","e","a","d">>, <<"o","p","t","i","o","n","s">> >>

normPath(p) == <<"/">> \o toLowerCase(StripLeadingSlash(p))

opKey(method, path) == toLowerCase(method) \o <<":">> \o normPath(path)

pathToToolSegment(path) ==
    LET s == StripTrailingUnderscore(
                 RemovePathParams(
                     CollapseSlashes(
                         StripLeadingSlash(normPath(path)))))
    IN  IF s = <<>> THEN <<"i","n","d","e","x">> ELSE s

\* isIncluded with the exclude list consulted although the include list is not empty
isIncludedExcludeFirst(key, includeEndpoints, excludeEndpoints) ==
    LET keyNorm == toLowerCase(key)
    IN  /\ ~ \E i \in 1..Len(excludeEndpoints) :
                keyNorm = toLowerCase(excludeEndpoints[i])
        /\ \/ Len(includeEndpoints) = 0
           \/ \E i \in 1..Len(includeEndpoints) :
                keyNorm = toLowerCase(includeEndpoints[i])

\* isIncluded with the list entries compared as written, not lower-cased
isIncludedCaseSensitive(key, includeEndpoints, excludeEndpoints) ==
    LET keyNorm == toLowerCase(key)
    IN  IF Len(includeEndpoints) > 0
        THEN \E i \in 1..Len(includeEndpoints) : keyNorm = includeEndpoints[i]
        ELSE ~ \E i \in 1..Len(excludeEndpoints) : keyNorm = excludeEndpoints[i]

isIncluded(key, includeEndpoints, excludeEndpoints) ==
    LET keyNorm == toLowerCase(key)
    IN  IF Len(includeEndpoints) > 0
        THEN \E i \in 1..Len(includeEndpoints) :
                keyNorm = toLowerCase(includeEndpoints[i])
        ELSE ~ \E i \in 1..Len(excludeEndpoints) :
                keyNorm = toLowerCase(excludeEndpoints[i])

(***************************************************************************)
(* The document.  spec.paths is the sequence of [key, item] entries that   *)
(* Object.entries(spec.paths) enumerates.  A path item is either not an    *)
(* object (wellFormed = FALSE) or an object whose own properties are the   *)
(* entries, in declaration order, [method, op].  An operation has the      *)
(* identity id (the object the tool's closure keeps), its parameters and   *)
(* the property names of its JSON request body.                            *)
(***************************************************************************)
\* pathItem[method]: the operation declared under the method, if any
HasMethod(pathItem, method) ==
    \E j \in 1..Len(pathItem.entries) : pathItem.entries[j].method = method

OperationOf(pathItem, method) ==
    LET j == CHOOSE j \in 1..Len(pathItem.entries) :
                 pathItem.entries[j].method = method
    IN  pathItem.entries[j].op

\* the prefix joined as it is, a trailing underscore included
BaseNameUntrimmed(toolPrefix, pathNorm) ==
    IF toolPrefix # <<>>
    THEN toolPrefix \o <<"_">> \o pathToToolSegment(pathNorm)
    ELSE pathToToolSegment(pathNorm)

\* the name given to an operation before collisions are resolved
BaseName(toolPrefix, pathNorm) ==
    IF toolPrefix # <<>>
    THEN StripTrailingUnderscore(toolPrefix) \o <<"_">> \o pathToToolSegment(pathNorm)
    ELSE pathToToolSegment(pathNorm)

\* the inner loop of resolveOperations: the methods m..7 of one path entry
RECURSIVE MethodsOfPath(_, _, _, _, _)
MethodsOfPath(entry, m, includeEndpoints, excludeEndpoints, toolPrefix) ==
    IF m > Len(HTTP_METHODS) THEN <<>>
    ELSE LET method   == HTTP_METHODS[m]
             pathNorm == normPath(entry.key)
             key      == opKey(method, pathNorm)
             rest     == MethodsOfPath(entry, m + 1, includeEndpoints,
                                       excludeEndpoints, toolPrefix)
         IN  IF /\ HasMethod(entry.item, method)
                /\ isIncluded(key, includeEndpoints, excludeEndpoints)
             THEN << [method |-> method,
                      path   |-> pathNorm,
                      key    |-> key,
                      op     |-> OperationOf(entry.item, method),
                      name   |-> BaseName(toolPrefix, pathNorm)] >> \o rest
             ELSE rest

\* the outer loop of resolveOperations: the path entries p.. of the document
RECURSIVE PathsFrom(_, _, _, _, _)
PathsFrom(paths, p, includeEndpoints, excludeEndpoints, toolPrefix) ==
    IF p > Len(paths) THEN <<>>
    ELSE (IF paths[p].item.wellFormed
          THEN MethodsOfPath(paths[p], 1, includeEndpoints,
                             excludeEndpoints, toolPrefix)
          ELSE <<>>)
         \o PathsFrom(paths, p + 1, includeEndpoints, excludeEndpoints, toolPrefix)

resolveOperations(s, includeEndpoints, excludeEndpoints, toolPrefix) ==
    PathsFrom(s.paths, 1, includeEndpoints, excludeEndpoints, toolPrefix)

\* a name-count map kept from the previous call
StaleNameCount == nameCount

\* const nameCount = new Map(): every call starts from an empty map
NewNameCount == [n \in {} |-> 0]

\* names counted over all collected operations, the filtered ones included
CountedOpsUnfiltered(s, cfg) ==
    resolveOperations(s, <<>>, <<>>, cfg.toolPrefix)

\* the operations whose names are counted
CountedOps(s, cfg) ==
    resolveOperations(s, cfg.includeEndpoints, cfg.excludeEndpoints, cfg.toolPrefix)

\* for (const { name } of ops) nameCount.set(name, (nameCount.get(name) ?? 0) + 1)
CountNames(ops, start) ==
    [n \in (DOMAIN start) \cup {ops[k].name : k \in 1..Len(ops)} |->
        (IF n \in DOMAIN start THEN start[n] ELSE 0)
        + Cardinality({k \in 1..Len(ops) : ops[k].name = n})]

\* nameCount.get(name) ?? 0
CountOf(counts, name) == IF name \in DOMAIN counts THEN counts[name] ELSE 0

UniqueName(counts, name, method) ==
    IF CountOf(counts, name) > 1 THEN name \o <<"_">> \o method ELSE name

(***************************************************************************)
(* Parameters.  A parameter is a record holding the fields it declares     *)
(* among ref (the $ref pointer), name, in, required; spec.parameters is    *)
(* the sequence of the [key, param] entries of the shared dictionary.      *)
(***************************************************************************)
RefPrefix == <<"#","/","p","a","r","a","m","e","t","e","r","s","/">>

StartsWith(chars, prefix) ==
    Len(chars) >= Len(prefix) /\ SubSeq(chars, 1, Len(prefix)) = prefix

\* the names every object inherits from Object.prototype: a lookup by one
\* of them on an object that has no such property of its own finds the
\* inherited function
ObjectPrototypeKeys ==
    { <<"c","o","n","s","t","r","u","c","t","o","r">>,
      <<"t","o","S","t","r","i","n","g">>,
      <<"v","a","l","u","e","O","f">> }

\* a value without own enumerable properties, as an inherited function is
NoFields == [f \in {} |-> <<>>]

\* resolveParameterRef: [found, param].  spec.parameters?.[paramName] finds
\* the dictionary's own entry, or else what the dictionary inherits; a
\* document without entries is one without the dictionary.
resolveParameterRef(ref, s) ==
    LET paramName == SubSeq(ref, Len(RefPrefix) + 1, Len(ref))
        hits == {i \in 1..Len(s.parameters) : s.parameters[i].key = paramName}
    IN  IF StartsWith(ref, RefPrefix) /\ hits # {}
        THEN [found |-> TRUE,
              param |-> s.parameters[CHOOSE i \in hits : \A j \in hits : j <= i].param]
        ELSE IF /\ StartsWith(ref, RefPrefix)
                /\ s.parameters # <<>>
                /\ paramName \in ObjectPrototypeKeys
             THEN [found |-> TRUE, param |-> NoFields]
             ELSE [found |-> FALSE, param |-> [name |-> <<>>]]

\* { ...resolved, ...(the fields of param other than $ref) }
MergeParameter(resolved, param) ==
    [f \in (DOMAIN resolved) \cup ((DOMAIN param) \ {"ref"}) |->
        IF f \in (DOMAIN param) \ {"ref"} THEN param[f] ELSE resolved[f]]

\* resolveParameter: [found, param]
resolveParameter(param, s) ==
    IF "ref" \in DOMAIN param /\ param.ref # <<>>
    THEN LET r == resolveParameterRef(param.ref, s)
         IN  IF r.found
             THEN [found |-> TRUE, param |-> MergeParameter(r.param, param)]
             ELSE r
    ELSE [found |-> TRUE, param |-> param]

\* (op.parameters ?? []).map(resolveParameter).filter(p => p !== null)
RECURSIVE ResolvedFrom(_, _, _)
ResolvedFrom(parameters, i, s) ==
    IF i > Len(parameters) THEN <<>>
    ELSE LET r == resolveParameter(parameters[i], s)
         IN  (IF r.found THEN <<r.param>> ELSE <<>>)
             \o ResolvedFrom(parameters, i + 1, s)

\* resolvedParams.filter(p => p.in === where).map(p => p.name)
RECURSIVE NamesIn(_, _, _)
NamesIn(params, i, where) ==
    IF i > Len(params) THEN <<>>
    ELSE (IF "in" \in DOMAIN params[i] /\ params[i]["in"] = where
          THEN <<params[i].name>> ELSE <<>>)
         \o NamesIn(params, i + 1, where)

(***************************************************************************)
(* The input schema.  A schema field is [type, choices, optional,          *)
(* description]: the zod type built (z.enum with its choices, z.number,    *)
(* z.boolean, z.array(z.unknown()), z.string), whether .optional() was     *)
(* applied and the text given to .describe(), empty when there is none.    *)
(* A parameter's 'required' is "true" or "false" for the booleans and      *)
(* "'true'" for the string.  Descriptions hold no HTML, so that            *)
(* htmlToMarkdown is not applied to them.                                  *)
(***************************************************************************)
RequiredTrue  == "true"
RequiredFalse == "false"
RequiredText  == "'true'"

\* schema?.type, schema?.enum, resolved.description: undefined when missing
HasField(r, f) == f \in DOMAIN r

\* z.string() in place of the base type of every tag
ZodBaseAlwaysString(t) == "string"

\* switch (t) of openApiTypeToZod
ZodBase(t) ==
    CASE t \in {"integer", "number"} -> "number"
      [] t = "boolean"               -> "boolean"
      [] t = "array"                 -> "array"
      [] OTHER                       -> "string"

\* !required, ignored
IsOptionalNever(required) == FALSE

\* if (!required) zodType = zodType.optional()
IsOptional(required) == ~ required

openApiTypeToZod(schema, description, required) ==
    LET t       == IF HasField(schema, "type") THEN schema.type ELSE "string"
        enumVal == IF HasField(schema, "enum") THEN schema.enum ELSE <<>>
    IN  [description |-> description,
         type        |-> IF Len(enumVal) > 0 THEN "enum" ELSE ZodBase(t),
         choices     |-> IF Len(enumVal) > 0 THEN enumVal ELSE <<>>,
         optional    |-> IsOptional(required)]

\* resolved.schema and resolved.description
SchemaOf(param) == IF HasField(param, "schema") THEN param.schema ELSE NoFields
DescriptionOf(param) == IF HasField(param, "description") THEN param.description ELSE <<>>

\* x.required === true
RequiredIsTrue(param) == HasField(param, "required") /\ param.required = RequiredTrue

\* shape[name] = field
Assign(shape, name, field) ==
    [n \in (DOMAIN shape) \cup {name} |-> IF n = name THEN field ELSE shape[n]]

\* shape[propName] === undefined, shape being an object literal
IsUndefinedIn(shape, propName) ==
    propName \notin DOMAIN shape /\ propName \notin ObjectPrototypeKeys

\* the first loop of buildZodShapeFromOperation, from parameter i on
RECURSIVE ShapeOfParameters(_, _, _, _)
ShapeOfParameters(parameters, i, s, shape) ==
    IF i > Len(parameters) THEN shape
    ELSE LET p == parameters[i]
             r == resolveParameter(p, s)
         IN  IF /\ r.found
                /\ HasField(r.param, "in")
                /\ r.param["in"] \in {"query", "path"}
             THEN ShapeOfParameters(parameters, i + 1, s,
                     Assign(shape, r.param.name,
                            openApiTypeToZod(SchemaOf(r.param), DescriptionOf(r.param),
                                             RequiredIsTrue(r.param) \/ RequiredIsTrue(p))))
             ELSE ShapeOfParameters(parameters, i + 1, s, shape)

\* requiredFields.includes(propName)
Includes(list, x) == \E j \in 1..Len(list) : list[j] = x

\* the second loop of buildZodShapeFromOperation, from body property j on
RECURSIVE ShapeOfBody(_, _, _)
ShapeOfBody(op, j, shape) ==
    IF j > Len(op.bodyProps) THEN shape
    ELSE IF IsUndefinedIn(shape, op.bodyProps[j])
         THEN ShapeOfBody(op, j + 1,
                 Assign(shape, op.bodyProps[j],
                        openApiTypeToZod(op.bodySchemas[j],
                                         DescriptionOf(op.bodySchemas[j]),
                                         Includes(op.bodyRequired, op.bodyProps[j]))))
         ELSE ShapeOfBody(op, j + 1, shape)

buildZodShapeFromOperation(op, s) ==
    ShapeOfBody(op, 1, ShapeOfParameters(op.parameters, 1, s, NoFields))

\* tools whose handlers all see the operation the loop ended with
BuildToolsLastBinding(s, ops, counts) ==
    [k \in 1..Len(ops) |->
        LET resolvedParams == ResolvedFrom(ops[k].op.parameters, 1, s)
        IN  [method          |-> ops[Len(ops)].method,
             path            |-> ops[Len(ops)].path,
             op              |-> ops[k].op,
             name            |-> UniqueName(counts, ops[k].name, ops[k].method),
             queryParamNames |-> NamesIn(resolvedParams, 1, "query"),
             pathParamNames  |-> NamesIn(resolvedParams, 1, "path"),
             bodyParamNames  |-> ops[k].op.bodyProps,
             inputSchema     |-> buildZodShapeFromOperation(ops[k].op, s)]]

\* the tools built from the resolved operations with the counts at hand
BuildTools(s, ops, counts) ==
    [k \in 1..Len(ops) |->
        LET resolvedParams == ResolvedFrom(ops[k].op.parameters, 1, s)
        IN  [method          |-> ops[k].method,
             path            |-> ops[k].path,
             op              |-> ops[k].op,
             name            |-> UniqueName(counts, ops[k].name, ops[k].method),
             queryParamNames |-> NamesIn(resolvedParams, 1, "query"),
             pathParamNames  |-> NamesIn(resolvedParams, 1, "path"),
             bodyParamNames  |-> ops[k].op.bodyProps,
             inputSchema     |-> buildZodShapeFromOperation(ops[k].op, s)]]

openApiToTools(s, cfg) ==
    LET ops    == resolveOperations(s, cfg.includeEndpoints,
                                    cfg.excludeEndpoints, cfg.toolPrefix)
        counts == CountNames(CountedOps(s, cfg), NewNameCount)
    IN  [nameCount |-> counts, tools |-> BuildTools(s, ops, counts)]

(***************************************************************************)
(* JavaScript values.  A value is a record [k, s, n]: its kind, its text   *)
(* (a string's characters, a symbol's description, the message a throwing  *)
(* object throws) and its number (a number's or a bigint's value, a        *)
(* boolean as 0 or 1, an object's address in the heap).  A heap maps the   *)
(* address of an object or an array to its properties in enumeration       *)
(* order; a payload is a heap with a root value.                           *)
(***************************************************************************)
Undefined     == [s |-> <<>>, n |-> 0, k |-> "undefined"]
Null          == [s |-> <<>>, n |-> 0, k |-> "null"]
Str(chars)    == [s |-> chars, n |-> 0, k |-> "string"]
Num(i)        == [s |-> <<>>, n |-> i, k |-> "number"]
Bool(b)       == [s |-> <<>>, n |-> IF b THEN 1 ELSE 0, k |-> "boolean"]
BigInt(i)     == [s |-> <<>>, n |-> i, k |-> "bigint"]
Function      == [s |-> <<>>, n |-> 0, k |-> "function"]
Symbol(chars) == [s |-> chars, n |-> 0, k |-> "symbol"]
Ref(a)        == [s |-> <<>>, n |-> a, k |-> "object"]
\* an object whose conversion (toString, toJSON, a getter) throws; it throws
\* an Error with the message when asError, the bare string otherwise
Throwing(chars, asError) ==
    [s |-> chars, n |-> IF asError THEN 1 ELSE 0, k |-> "throwing"]
\* an object whose conversion throws a value that is no Error and that
\* String() cannot convert (an object without a callable toString)
ThrowingUnprintable == [s |-> <<>>, n |-> 2, k |-> "throwing"]

Obj(props) == [props |-> props, isArray |-> FALSE]
Arr(items) ==
    [props   |-> [i \in 1..Len(items) |-> [key |-> <<>>, val |-> items[i]]],
     isArray |-> TRUE]
Prop(key, val) == [key |-> key, val |-> val]

NoHeap == [a \in {} |-> Obj(<<>>)]
Payload(heap, root) == [heap |-> heap, root |-> root]

\* the decimal digits of a natural number
RECURSIVE Digits(_)
Digits(i) ==
    LET d == <<"0","1","2","3","4","5","6","7","8","9">>
    IN  IF i < 10 THEN <<d[i + 1]>> ELSE Digits(i \div 10) \o <<d[(i % 10) + 1]>>

\* the JSON escapes of the characters of a string
RECURSIVE Escape(_)
Escape(chars) ==
    IF chars = <<>> THEN <<>>
    ELSE (IF Head(chars) \in {"\"", "\\"} THEN <<"\\", Head(chars)>>
          ELSE <<Head(chars)>>) \o Escape(Tail(chars))

\* the JSON encoding of a string
Quote(chars) == <<"\"">> \o Escape(chars) \o <<"\"">>

\* String(value) throws a TypeError: the value is an object whose own
\* toString property is no function (the inherited valueOf returns the object
\* itself, so no primitive is found), or an array with such an element.  The
\* heap holds no reference cycle through arrays.
RECURSIVE CannotConvert(_, _)
CannotConvert(heap, v) ==
    CASE v.k = "throwing" -> TRUE
      [] v.k = "object" ->
            LET o == heap[v.n]
            IN  IF o.isArray
                THEN \E i \in 1..Len(o.props) : CannotConvert(heap, o.props[i].val)
                ELSE \E i \in 1..Len(o.props) :
                        /\ o.props[i].key = <<"t","o","S","t","r","i","n","g">>
                        /\ o.props[i].val.k # "function"
      [] OTHER -> FALSE

\* String(value) for the values a parsed JSON body or an argument holds,
\* where the conversion does not throw
RECURSIVE JsString(_, _)
RECURSIVE JoinItems(_, _, _)

\* Array.prototype.join: the items i.. of the array, null and undefined empty
JoinItems(heap, o, i) ==
    IF i > Len(o.props) THEN <<>>
    ELSE (IF i > 1 THEN <<",">> ELSE <<>>)
         \o (IF o.props[i].val.k \in {"undefined", "null"} THEN <<>>
             ELSE JsString(heap, o.props[i].val))
         \o JoinItems(heap, o, i + 1)

JsString(heap, v) ==
    CASE v.k = "undefined" -> <<"u","n","d","e","f","i","n","e","d">>
      [] v.k = "null"      -> <<"n","u","l","l">>
      [] v.k = "string"    -> v.s
      [] v.k = "number"    -> Digits(v.n)
      [] v.k = "bigint"    -> Digits(v.n)
      [] v.k = "boolean"   -> IF v.n = 1 THEN <<"t","r","u","e">>
                              ELSE <<"f","a","l","s","e">>
      [] v.k = "symbol"    -> <<"S","y","m","b","o","l","(">> \o v.s \o <<")">>
      [] v.k = "object"    ->
            IF heap[v.n].isArray THEN JoinItems(heap, heap[v.n], 1)
            ELSE <<"[","o","b","j","e","c","t"," ","O","b","j","e","c","t","]">>

(***************************************************************************)
(* safeStringify: JSON.stringify with the replacer of the source.  The walk *)
(* returns its text, the set of the objects seen so far, and whether it    *)
(* threw (threw carries in text the message of what was thrown, and in     *)
(* unprintable whether String() of what was thrown throws).                *)
(***************************************************************************)
Walked(text, seen) ==
    [text |-> text, seen |-> seen, threw |-> FALSE, unprintable |-> FALSE]
WalkThrew(v, seen) ==
    [text |-> v.s, seen |-> seen, threw |-> TRUE, unprintable |-> v = ThrowingUnprintable]

\* a walk that leaves no mark where it does not recurse
CircularMarkEmpty == <<>>

\* return '[Circular]'
CircularMark == <<"[","C","i","r","c","u","l","a","r","]">>

RECURSIVE SerializeValue(_, _, _)
RECURSIVE SerializeProps(_, _, _, _, _)

\* the properties i.. of an object or an array, each preceded by a comma but
\* the first
SerializeProps(heap, o, i, seen, acc) ==
    IF i > Len(o.props) THEN Walked(acc, seen)
    ELSE LET r   == SerializeValue(heap, o.props[i].val, seen)
             sep == IF i > 1 THEN <<",">> ELSE <<>>
             key == IF o.isArray THEN <<>> ELSE Quote(o.props[i].key) \o <<":">>
         IN  IF r.threw THEN r
             ELSE SerializeProps(heap, o, i + 1, r.seen, acc \o sep \o key \o r.text)

\* one value: the replacer's answer for it, then its encoding
SerializeValue(heap, v, seen) ==
    CASE v.k = "throwing"  -> WalkThrew(v, seen)
      [] v.k = "bigint"    -> Walked(Quote(Digits(v.n)), seen)
      [] v.k = "function"  -> Walked(Quote(<<"[","F","u","n","c","t","i","o","n","]">>), seen)
      [] v.k = "symbol"    -> Walked(Quote(JsString(heap, v)), seen)
      [] v.k = "undefined" -> Walked(<<"n","u","l","l">>, seen)
      [] v.k = "null"      -> Walked(<<"n","u","l","l">>, seen)
      [] v.k = "string"    -> Walked(Quote(v.s), seen)
      [] v.k = "number"    -> Walked(Digits(v.n), seen)
      [] v.k = "boolean"   -> Walked(JsString(heap, v), seen)
      [] v.k = "object"    ->
            IF v.n \in seen
            THEN Walked(Quote(CircularMark), seen)
            ELSE LET o == heap[v.n]
                     r == SerializeProps(heap, o, 1, seen \cup {v.n}, <<>>)
                 IN  IF r.threw THEN r
                     ELSE IF o.isArray
                          THEN Walked(<<"[">> \o r.text \o <<"]">>, r.seen)
                          ELSE Walked(<<"{">> \o r.text \o <<"}">>, r.seen)

\* JSON.stringify({ error: 'Failed to serialize response', message })
FallbackText(message) ==
    <<"{">> \o Quote(<<"e","r","r","o","r">>) \o <<":">>
    \o Quote(<<"F","a","i","l","e","d"," ","t","o"," ","s","e","r","i","a","l","i","z","e"," ","r","e","s","p","o","n","s","e">>)
    \o <<",">> \o Quote(<<"m","e","s","s","a","g","e">>) \o <<":">>
    \o Quote(message) \o <<"}">>

\* the catch block of safeStringify throws: e is no Error and String(e) throws
safeStringifyThrows(data) ==
    LET r == SerializeValue(data.heap, data.root, {})
    IN  r.threw /\ r.unprintable

\* a normalizer that hands a string payload through as it is
safeStringifyRawStrings(data) ==
    LET r == SerializeValue(data.heap, data.root, {})
    IN  IF data.root.k = "string" THEN data.root.s
        ELSE IF r.threw THEN FallbackText(r.text) ELSE r.text

\* the string safeStringify returns, when it returns
safeStringify(data) ==
    LET r == SerializeValue(data.heap, data.root, {})
    IN  IF r.threw THEN FallbackText(r.text) ELSE r.text

(***************************************************************************)
(* The handler of a tool (openApiToTools, const handler = async (args)).   *)
(***************************************************************************)
\* args[p]: the supplied argument, else the function every object inherits
\* under that name, else undefined
ArgOf(args, p) ==
    IF p \in DOMAIN args THEN args[p]
    ELSE IF p \in ObjectPrototypeKeys THEN Function
    ELSE Undefined

\* the replacement text of String.prototype.replace: $$, $&, $` and $' are
\* patterns; the expression has no group, so every other "$" stands for itself
RECURSIVE ExpandReplacement(_, _, _, _)
ExpandReplacement(rep, before, matched, after) ==
    IF rep = <<>> THEN <<>>
    ELSE IF Head(rep) = "$" /\ Len(rep) >= 2 /\ rep[2] \in {"$", "&", "`", "'"}
         THEN (CASE rep[2] = "$" -> <<"$">>
                 [] rep[2] = "&" -> matched
                 [] rep[2] = "`" -> before
                 [] rep[2] = "'" -> after)
              \o ExpandReplacement(SubSeq(rep, 3, Len(rep)), before, matched, after)
         ELSE <<Head(rep)>> \o ExpandReplacement(Tail(rep), before, matched, after)

\* rest.replace(new RegExp(pat, 'gi'), rep) for a literal pat; done is the
\* text already scanned.  Parameter names hold no regular-expression
\* metacharacter.
RECURSIVE ReplaceAll(_, _, _, _)
ReplaceAll(done, rest, pat, rep) ==
    IF Len(rest) < Len(pat) THEN rest
    ELSE IF toLowerCase(SubSeq(rest, 1, Len(pat))) = toLowerCase(pat)
         THEN LET matched == SubSeq(rest, 1, Len(pat))
                  after   == SubSeq(rest, Len(pat) + 1, Len(rest))
              IN  ExpandReplacement(rep, done, matched, after)
                  \o ReplaceAll(done \o matched, after, pat, rep)
         ELSE <<Head(rest)>> \o ReplaceAll(done \o <<Head(rest)>>, Tail(rest), pat, rep)

\* what a failure is: a rejection of client.request or a value thrown while
\* the request is built.  isAxiosError: axios.isAxiosError(e); isError:
\* e instanceof Error; message: e.message, or String(e) when e is no Error;
\* hasResponse, status and data: e.response.
Failure(isAxiosError, isError, message, hasResponse, status, data) ==
    [message |-> message, data |-> data, isAxiosError |-> isAxiosError,
     isError |-> isError, hasResponse |-> hasResponse, status |-> status,
     fulfilled |-> FALSE]

\* a response the promise of client.request is fulfilled with
Response(status, data) ==
    [message |-> <<>>, data |-> data, isAxiosError |-> FALSE,
     isError |-> FALSE, hasResponse |-> TRUE, status |-> status, fulfilled |-> TRUE]

NoOutcome == Failure(FALSE, FALSE, <<>>, FALSE, 0, Payload(NoHeap, Undefined))

\* what String(val) throws for an object whose conversion throws
ThrownBy(val) ==
    Failure(FALSE, val.n = 1, val.s, FALSE, 0, Payload(NoHeap, Undefined))

\* the loop over pathParamNames: [threw, url, err]
RECURSIVE SubstitutePathParams(_, _, _, _)
SubstitutePathParams(url, pathParamNames, i, args) ==
    IF i > Len(pathParamNames) THEN [threw |-> FALSE, url |-> url, err |-> NoOutcome]
    ELSE LET p   == pathParamNames[i]
             val == ArgOf(args, p)
         IN  IF val.k \in {"undefined", "null"}
             THEN SubstitutePathParams(url, pathParamNames, i + 1, args)
             ELSE IF CannotConvert(NoHeap, val)
                  THEN [threw |-> TRUE, url |-> url, err |-> ThrownBy(val)]
                  ELSE SubstitutePathParams(
                           ReplaceAll(<<>>, url, <<"{">> \o p \o <<"}">>,
                                      JsString(NoHeap, val)),
                           pathParamNames, i + 1, args)

\* the elements of a list of names
NamesOf(names) == {names[i] : i \in 1..Len(names)}

\* the query map: the declared query names whose argument is not undefined or null
QueryParams(tool, args) ==
    [p \in {q \in NamesOf(tool.queryParamNames) :
                ArgOf(args, q).k \notin {"undefined", "null"}}
        |-> ArgOf(args, p)]

\* the body: undefined when no body property is declared, else the declared
\* names whose argument is not undefined
RequestData(tool, args) ==
    IF Len(tool.bodyParamNames) > 0
    THEN [present |-> TRUE,
          fields  |-> [p \in {q \in NamesOf(tool.bodyParamNames) :
                                 ArgOf(args, q).k # "undefined"}
                          |-> ArgOf(args, p)]]
    ELSE [present |-> FALSE, fields |-> [p \in {} |-> Undefined]]

NoRequest ==
    [method |-> <<>>, params |-> [p \in {} |-> Undefined],
     data |-> [present |-> FALSE, fields |-> [p \in {} |-> Undefined]],
     url |-> <<>>]

\* the handler up to client.request: [threw, request, err]
BuildRequest(tool, args) ==
    LET u == SubstitutePathParams(tool.path, tool.pathParamNames, 1, args)
    IN  IF u.threw
        THEN [threw |-> TRUE, err |-> u.err, request |-> NoRequest]
        ELSE [threw   |-> FALSE,
              err     |-> NoOutcome,
              request |-> [method |-> tool.method,
                           params |-> QueryParams(tool, args),
                           data   |-> RequestData(tool, args),
                           url    |-> u.url]]

\* e.response?.data && typeof e.response.data === 'object'
IsObjectBody(e) == e.hasResponse /\ e.data.root.k = "object"

\* 'error' in e.response.data
HasErrorKey(e) ==
    \E i \in 1..Len(e.data.heap[e.data.root.n].props) :
        /\ ~ e.data.heap[e.data.root.n].isArray
        /\ e.data.heap[e.data.root.n].props[i].key = <<"e","r","r","o","r">>

ErrorField(e) ==
    LET o == e.data.heap[e.data.root.n]
    IN  o.props[CHOOSE i \in 1..Len(o.props) : o.props[i].key = <<"e","r","r","o","r">>].val

\* String((e.response.data as { error?: unknown }).error) throws
MessageThrows(e) ==
    /\ e.isAxiosError /\ IsObjectBody(e) /\ HasErrorKey(e)
    /\ CannotConvert(e.data.heap, ErrorField(e))

\* the message with the body's error field never consulted
ErrorMessageTransportOnly(e) == e.message

\* const message = ... in the catch block
ErrorMessage(e) ==
    IF e.isAxiosError /\ IsObjectBody(e) /\ HasErrorKey(e)
    THEN JsString(e.data.heap, ErrorField(e))
    ELSE e.message

ErrorMarker == <<"E","r","r","o","r",":"," ">>

TextContent(text) == [type |-> "text", text |-> text]

\* return { content: [textContent(`Error: ${message}`)], isError: true }
ErrorEnvelope(message) ==
    [isError |-> TRUE, content |-> << TextContent(ErrorMarker \o message) >>]

\* return { content: [textContent(safeStringify(res.data))] }
SuccessEnvelope(res) ==
    [content |-> << TextContent(safeStringify(res.data)) >>]

NoResult == [content |-> <<>>]

\* an invocation that has not begun
Idle ==
    [args |-> [p \in {} |-> Undefined], tool |-> 0, pc |-> "idle", sent |-> 0,
     overlapped |-> FALSE, result |-> NoResult]

\* the exchange of an invocation that has issued no request
NoExchange ==
    [request |-> NoRequest, sent |-> FALSE, answered |-> FALSE, outcome |-> NoOutcome]

\* the catch block: the handler returns the error envelope, unless computing
\* the message throws, which leaves the handler as an exception (the promise
\* the handler returned is rejected)
Caught(c, e) ==
    IF MessageThrows(e)
    THEN [c EXCEPT !.pc = "thrown"]
    ELSE [c EXCEPT !.pc = "returned", !.result = ErrorEnvelope(ErrorMessage(e))]

\* await client.request(...) rejects: control passes to the catch block
OnRejected(c, e) == Caught(c, e)

\* the TypeError String() throws for a value it cannot convert
ConversionError ==
    Failure(FALSE, TRUE,
            <<"C","a","n","n","o","t"," ","c","o","n","v","e","r","t"," ","o","b","j","e","c","t",
              " ","t","o"," ","p","r","i","m","i","t","i","v","e"," ","v","a","l","u","e">>,
            FALSE, 0, Payload(NoHeap, Undefined))

\* await client.request(...) is fulfilled: the rest of the try block; what
\* safeStringify throws there is caught by the handler's catch block
OnFulfilled(c, res) ==
    IF safeStringifyThrows(res.data)
    THEN Caught(c, ConversionError)
    ELSE [c EXCEPT !.pc = "returned", !.result = SuccessEnvelope(res)]

\* the first invocation that awaits a response
AwaiterFirst(i) ==
    CHOOSE j \in 1..MaxCalls :
        /\ calls[j].pc = "awaiting"
        /\ \A k \in 1..MaxCalls : calls[k].pc = "awaiting" => j <= k

\* the invocation that resumes when the request of invocation i is settled:
\* each invocation awaits the promise of its own client.request call
Awaiter(i) == i

(***************************************************************************)
(* The instructions handed to MCP clients (instructions-loader).  A text   *)
(* is a JavaScript value: null, undefined or a string.                     *)
(***************************************************************************)
DEFAULT == "default"
REPLACE == "replace"
APPEND  == "append"
PREPEND == "prepend"

\* !text: null, undefined and the empty string
Falsy(text) ==
    \/ text.k \in {"null", "undefined"}
    \/ text.k = "string" /\ text.s = <<>>

\* text || null
OrNull(text) == IF Falsy(text) THEN Null ELSE text

BlankLine == <<"\n", "\n">>

\* a combination that puts the separator between the two texts whatever they are
combineInstructionsAlwaysJoined(openApiInstructions, fileInstructions, mode) ==
    CASE mode = DEFAULT -> OrNull(openApiInstructions)
      [] mode = REPLACE -> IF Falsy(fileInstructions) THEN Null ELSE fileInstructions
      [] mode = APPEND  ->
            IF Falsy(fileInstructions) /\ Falsy(openApiInstructions) THEN Null
            ELSE Str(openApiInstructions.s \o BlankLine \o fileInstructions.s)
      [] mode = PREPEND ->
            IF Falsy(fileInstructions) /\ Falsy(openApiInstructions) THEN Null
            ELSE Str(fileInstructions.s \o BlankLine \o openApiInstructions.s)
      [] OTHER -> Null

\* combineInstructions of instructions-loader
combineInstructions(openApiInstructions, fileInstructions, mode) ==
    CASE mode = DEFAULT -> OrNull(openApiInstructions)
      [] mode = REPLACE -> IF Falsy(fileInstructions) THEN Null ELSE fileInstructions
      [] mode = APPEND  ->
            IF Falsy(fileInstructions) THEN OrNull(openApiInstructions)
            ELSE IF Falsy(openApiInstructions) THEN fileInstructions
            ELSE Str(openApiInstructions.s \o BlankLine \o fileInstructions.s)
      [] mode = PREPEND ->
            IF Falsy(fileInstructions) THEN OrNull(openApiInstructions)
            ELSE IF Falsy(openApiInstructions) THEN fileInstructions
            ELSE Str(fileInstructions.s \o BlankLine \o openApiInstructions.s)
      [] OTHER -> Null

\* nothing handed to combineInstructions yet
NoInstructions ==
    [result |-> Null, mode |-> DEFAULT, openApi |-> Null, file |-> Null,
     combined |-> FALSE]

\* main calls combineInstructions with the two texts and the configured mode
Combine ==
    /\ ~ instructions.combined
    /\ instructions' =
          [instructions EXCEPT
              !.combined = TRUE,
              !.result = combineInstructions(instructions.openApi, instructions.file,
                                             instructions.mode)]
    /\ UNCHANGED <<toolVars, sessions, requests, pairs>>

(***************************************************************************)
(* The session-keeping server (src/src/server.ts, createMcpApp with the    *)
(* session map).  Time is counted in minutes.  A session's lastAccess is   *)
(* kept as the time gone by since it, Date.now() - lastAccess, which is    *)
(* all the sweep reads of it; past the timeout it is not told apart.       *)
(***************************************************************************)
MaxRequests == 3

\* const SESSION_TIMEOUT = 30 * 60 * 1000, in minutes
SESSION_TIMEOUT == 30

\* the period of the cleanup timer, 5 * 60 * 1000, in minutes
CLEANUP_PERIOD == 5

\* session ids are pairs <<kind, number>>
NoId == <<"none", 0>>
EmptyId == <<"", 0>>
StaleId == <<"stale", 0>>
\* `temp-${Date.now()}-${Math.random()...}` of the request r
TempId(r) == <<"temp", r>>
\* the session id the transport of the pair p puts in its responses
Sid(p) == <<"sid", p>>

NoSessions == [k \in {} |-> [pair |-> 0, idle |-> 0]]

NoRequestYet ==
    [pc |-> "idle", pair |-> 0, header |-> NoId, actualSessionId |-> NoId,
     responseId |-> NoId, reused |-> FALSE]

NoPair ==
    [created |-> FALSE, connected |-> FALSE, serverClosed |-> FALSE,
     transportClosed |-> FALSE]

\* the state of a process that serves no request
NotServing ==
    /\ instructions = NoInstructions
    /\ sessions = NoSessions
    /\ requests = [r \in 1..MaxRequests |-> NoRequestYet]
    /\ pairs = [p \in 1..MaxRequests |-> NoPair]

\* sessions.set(key, data)
MapSet(map, key, data) ==
    [k \in DOMAIN map \cup {key} |-> IF k = key THEN data ELSE map[k]]

\* sessions.delete(key)
MapDelete(map, key) == [k \in DOMAIN map \ {key} |-> map[k]]

\* handleMcpRequest up to its first await: the request r arrives with the
\* header (NoId: without one); a known session is reused and its lastAccess
\* refreshed, else a pair is created and server.connect awaited
Receive(r, header) ==
    /\ requests[r].pc = "idle"
    /\ \A q \in 1..(r - 1) : requests[q].pc # "idle"
    /\ IF header # NoId /\ header \in DOMAIN sessions
       THEN /\ sessions' = [sessions EXCEPT ![header].idle = 0]
            /\ requests' = [requests EXCEPT ![r] =
                   [NoRequestYet EXCEPT !.pc = "handling", !.header = header,
                                        !.pair = sessions[header].pair,
                                        !.actualSessionId = header,
                                        !.reused = TRUE]]
            /\ UNCHANGED pairs
       ELSE /\ pairs' = [pairs EXCEPT ![r].created = TRUE]
            /\ requests' = [requests EXCEPT ![r] =
                   [NoRequestYet EXCEPT !.pc = "connecting", !.header = header,
                                        !.pair = r, !.actualSessionId = header]]
            /\ UNCHANGED sessions
    /\ UNCHANGED <<toolVars, instructions>>

\* server.connect has resolved: the pair is stored under the header's id, or
\* under a temporary id when the request has none
Connected(r) ==
    /\ requests[r].pc = "connecting"
    /\ LET tempSessionId ==
              IF requests[r].header # NoId THEN requests[r].header ELSE TempId(r)
       IN  sessions' = MapSet(sessions, tempSessionId, [pair |-> r, idle |-> 0])
    /\ pairs' = [pairs EXCEPT ![r].connected = TRUE]
    /\ requests' = [requests EXCEPT ![r].pc = "handling"]
    /\ UNCHANGED <<toolVars, instructions>>

\* the transport sets the Mcp-Session-Id header of the response: the
\* override of res.setHeader moves the entry of actualSessionId to the new id
SetHeader(r) ==
    /\ requests[r].pc = "handling"
    /\ requests[r].responseId = NoId
    /\ LET newSessionId == Sid(requests[r].pair)
           actual == requests[r].actualSessionId
           key == IF actual = NoId THEN EmptyId ELSE actual
       IN  IF actual # newSessionId /\ key \in DOMAIN sessions
           THEN /\ sessions' = MapSet(MapDelete(sessions, key), newSessionId,
                                      sessions[key])
                /\ requests' = [requests EXCEPT ![r].responseId = newSessionId,
                                                ![r].actualSessionId = newSessionId]
           ELSE /\ requests' = [requests EXCEPT ![r].responseId = newSessionId]
                /\ UNCHANGED sessions
    /\ UNCHANGED <<toolVars, instructions, pairs>>

\* transport.handleRequest has resolved
Finish(r) ==
    /\ requests[r].pc = "handling"
    /\ requests' = [requests EXCEPT ![r].pc = "done"]
    /\ UNCHANGED <<toolVars, instructions, sessions, pairs>>

\* now - session.lastAccess > SESSION_TIMEOUT
Expired(session) == session.idle > SESSION_TIMEOUT

\* the callback of the cleanup timer
Sweep ==
    LET gone == {k \in DOMAIN sessions : Expired(sessions[k])}
    IN  /\ gone # {}
        /\ sessions' = [k \in DOMAIN sessions \ gone |-> sessions[k]]
        /\ pairs' = [p \in 1..MaxRequests |->
                        IF \E k \in gone : sessions[k].pair = p
                        THEN [pairs[p] EXCEPT !.serverClosed = TRUE,
                                              !.transportClosed = TRUE]
                        ELSE pairs[p]]
        /\ UNCHANGED <<toolVars, instructions, requests>>

\* the first multiple of the period beyond the timeout
PastTimeout == ((SESSION_TIMEOUT \div CLEANUP_PERIOD) + 1) * CLEANUP_PERIOD

\* one period of the cleanup timer goes by
Tick ==
    /\ \E k \in DOMAIN sessions : sessions[k].idle < PastTimeout
    /\ sessions' = [k \in DOMAIN sessions |->
                       [sessions[k] EXCEPT
                           !.idle = IF @ + CLEANUP_PERIOD > PastTimeout THEN PastTimeout
                                    ELSE @ + CLEANUP_PERIOD]]
    /\ UNCHANGED <<toolVars, instructions, requests, pairs>>

(***************************************************************************)
(* The documents and configurations compiled by the model.                 *)
(***************************************************************************)
GET == <<"g","e","t">>
PUT == <<"p","u","t">>

PathKeys ==
    { <<"/","p","e","t">>,
      <<"/","P","e","t">>,
      <<"/","p","e","t","/","{","i","d","}">>,
      <<"/","p","e","t","/","{","n","a","m","e","}">>,
      <<"/","p","e","t","_","g","e","t">> }

\* the methods declared on a path item, in declaration order
MethodLists == { <<GET>>, <<PUT>>, <<PUT, GET>> }

\* an operation without parameters and body; id is its identity
PlainOp(id) ==
    [parameters |-> <<>>, bodyProps |-> <<>>, bodySchemas |-> <<>>,
     bodyRequired |-> <<>>, id |-> id]

PathItem(methods, p) ==
    [entries    |-> [j \in 1..Len(methods) |->
                        [method |-> methods[j], op |-> PlainOp(<<p, methods[j]>>)]],
     wellFormed |-> TRUE]

\* a path entry whose value is not an object
Malformed == [entries |-> <<>>, wellFormed |-> FALSE]

KeySeqs ==
    UNION { { ks \in [1..n -> PathKeys] :
                \A i, j \in 1..n : i # j => ks[i] # ks[j] } : n \in 0..MaxPaths }

Specs ==
    UNION { { [paths |-> [p \in 1..Len(ks) |->
                            [key  |-> ks[p],
                             item |-> IF ms[p] = <<>> THEN Malformed
                                      ELSE PathItem(ms[p], p)]],
                parameters |-> <<>>] :
                ms \in [1..Len(ks) -> MethodLists \cup {<<>>}] } : ks \in KeySeqs }

IncludeLists ==
    { <<>>,
      << <<"G","E","T",":","/","P","e","t">> >>,
      << <<"p","u","t",":","/","p","e","t">>,
         <<"g","e","t",":","/","p","e","t","_","g","e","t">> >> }

ExcludeLists ==
    { <<>>,
      << <<"g","e","t",":","/","p","e","t">> >>,
      << <<"P","U","T",":","/","p","e","t">>,
         <<"g","e","t",":","/","p","e","t","/","{","i","d","}">> >> }

Prefixes == { <<>>, <<"t","g">>, <<"t","g","_">> }

Configs ==
    [includeEndpoints : IncludeLists, excludeEndpoints : ExcludeLists,
     toolPrefix : Prefixes]

(***************************************************************************)
(* Compilation as a state machine: the document and the configuration are  *)
(* given, and openApiToTools may be called any number of times.            *)
(***************************************************************************)
InitCompile ==
    /\ spec \in Specs
    /\ config \in Configs
    /\ compiled = FALSE
    /\ nameCount = [n \in {} |-> 0]
    /\ tools = <<>>
    /\ calls = [i \in 1..MaxCalls |-> Idle]
    /\ backend = [i \in 1..MaxCalls |-> NoExchange]
    /\ NotServing

Compile ==
    /\ LET r == openApiToTools(spec, config)
       IN  /\ nameCount' = r.nameCount
           /\ tools' = r.tools
    /\ compiled' = TRUE
    /\ UNCHANGED <<spec, config, calls, backend, serverVars>>

NextCompile == Compile

SpecCompile == InitCompile /\ [][NextCompile]_vars

(***************************************************************************)
(* Invocation as a state machine: the tools of a compiled document are     *)
(* invoked, concurrently, through one HTTP client; the backend answers     *)
(* each request in flight with any outcome.                                *)
(***************************************************************************)
ID    == <<"i","d">>
Q     == <<"q">>
NAME  == <<"n","a","m","e">>
QUERY == <<"q","u","e","r","y">>

SampleSpec ==
    [paths |->
        << [key  |-> <<"/","p","e","t","/","{","i","d","}">>,
            item |-> [entries |->
                        << [method |-> GET,
                            op |-> [parameters |->
                                        << [name |-> ID, required |-> RequiredTrue, in |-> "path"],
                                           [name |-> Q, in |-> "query"] >>,
                                    bodyProps |-> <<>>,
                                    bodySchemas |-> <<>>,
                                    bodyRequired |-> <<>>,
                                    id |-> <<1, GET>>]],
                           [method |-> PUT,
                            op |-> [parameters |-> << [ref |-> RefPrefix \o ID] >>,
                                    bodyProps |-> <<NAME>>,
                                    bodySchemas |-> << NoFields >>,
                                    bodyRequired |-> <<>>,
                                    id |-> <<1, PUT>>]] >>,
                      wellFormed |-> TRUE]],
           [key  |-> <<"/","m","e","s","s","a","g","e","s">>,
            item |-> [entries |->
                        << [method |-> GET,
                            op |-> [parameters |-> << [name |-> QUERY, in |-> "query"] >>,
                                    bodyProps |-> <<>>,
                                    bodySchemas |-> <<>>,
                                    bodyRequired |-> <<>>,
                                    id |-> <<2, GET>>]] >>,
                      wellFormed |-> TRUE]] >>,
     parameters |->
        << [key |-> ID, param |-> [name |-> ID, required |-> RequiredTrue, in |-> "path"]] >>]

SampleConfig ==
    [includeEndpoints |-> <<>>, excludeEndpoints |-> <<>>, toolPrefix |-> <<>>]

\* the invocations made: a tool of the compiled list and its arguments
Invocations ==
    { [args |-> (ID :> Num(7)) @@ (Q :> Str(<<"x">>)), tool |-> 1],
      [args |-> (ID :> Throwing(<<"b","o","o","m">>, TRUE)), tool |-> 2],
      [args |-> [p \in {} |-> Undefined], tool |-> 3] }

\* the bodies of the responses
PlainBody ==
    Payload((1 :> Obj(<< Prop(<<"a">>, Num(1)), Prop(<<"b">>, Str(<<"x">>)) >>)), Ref(1))
CyclicBody ==
    Payload((1 :> Obj(<< Prop(<<"s","e","l","f">>, Ref(1)) >>)), Ref(1))
BigIntBody ==
    Payload((1 :> Obj(<< Prop(<<"i","d">>, BigInt(90)), Prop(<<"v">>, Num(123)) >>)), Ref(1))
UndefinedFieldBody ==
    Payload((1 :> Obj(<< Prop(<<"f">>, Undefined), Prop(<<"g">>, Null) >>)), Ref(1))
StringBody == Payload(NoHeap, Str(<<"h","e","l","l","o">>))
NullBody == Payload(NoHeap, Null)
ThrowingBody ==
    Payload((1 :> Obj(<< Prop(<<"t">>, Throwing(<<"b","a","d">>, TRUE)) >>)), Ref(1))
ThrowingStringBody ==
    Payload((1 :> Obj(<< Prop(<<"t">>, Throwing(<<"b","a","d">>, FALSE)) >>)), Ref(1))
ThrowingUnprintableBody ==
    Payload((1 :> Obj(<< Prop(<<"t">>, ThrowingUnprintable) >>)), Ref(1))

Payloads ==
    { PlainBody, CyclicBody, BigIntBody, UndefinedFieldBody, StringBody,
      NullBody, ThrowingBody, ThrowingStringBody, ThrowingUnprintableBody }

BadRequest == <<"b","a","d"," ","r","e","q","u","e","s","t">>
StatusMessage(digits) == <<"R","e","q","u","e","s","t"," ","f","a","i","l","e","d"," ","w","i","t","h"," ","s","t","a","t","u","s"," ","c","o","d","e"," ">> \o digits
TimeoutMessage == <<"t","i","m","e","o","u","t"," ","o","f"," ","3","0","0","0","0","m","s"," ","e","x","c","e","e","d","e","d">>
NetworkMessage == <<"N","e","t","w","o","r","k"," ","E","r","r","o","r">>

ErrorBody ==
    Payload((1 :> Obj(<< Prop(<<"e","r","r","o","r">>, Str(BadRequest)) >>)), Ref(1))
ErrorObjectBody ==
    Payload((1 :> Obj(<< Prop(<<"e","r","r","o","r">>, Ref(2)) >>))
            @@ (2 :> Obj(<< Prop(<<"c">>, Num(1)) >>)), Ref(1))
UnprintableErrorBody ==
    Payload((1 :> Obj(<< Prop(<<"e","r","r","o","r">>, Ref(2)) >>))
            @@ (2 :> Obj(<< Prop(<<"t","o","S","t","r","i","n","g">>, Null) >>)), Ref(1))
DetailBody ==
    Payload((1 :> Obj(<< Prop(<<"d">>, Str(<<"x">>)) >>)), Ref(1))
ArrayBody ==
    Payload((1 :> Arr(<< Str(<<"e","r","r","o","r">>) >>)), Ref(1))

\* the failures of client.request: a response outside 2xx, a timeout, a
\* connection error, a rejection with a value that is no Error
Failures ==
    { Failure(TRUE, TRUE, StatusMessage(<<"4","0","0">>), TRUE, 400, ErrorBody),
      Failure(TRUE, TRUE, StatusMessage(<<"5","0","0">>), TRUE, 500, ErrorObjectBody),
      Failure(TRUE, TRUE, StatusMessage(<<"4","2","2">>), TRUE, 422, UnprintableErrorBody),
      Failure(TRUE, TRUE, StatusMessage(<<"4","0","4">>), TRUE, 404, DetailBody),
      Failure(TRUE, TRUE, StatusMessage(<<"5","0","2">>), TRUE, 502, ArrayBody),
      Failure(TRUE, TRUE, StatusMessage(<<"5","0","3">>), TRUE, 503, StringBody),
      Failure(TRUE, TRUE, TimeoutMessage, FALSE, 0, Payload(NoHeap, Undefined)),
      Failure(TRUE, TRUE, NetworkMessage, FALSE, 0, Payload(NoHeap, Undefined)),
      Failure(FALSE, FALSE, <<"n","o">>, FALSE, 0, Payload(NoHeap, Undefined)) }

InitInvoke ==
    /\ spec = SampleSpec
    /\ config = SampleConfig
    /\ compiled = TRUE
    /\ nameCount = openApiToTools(SampleSpec, SampleConfig).nameCount
    /\ tools = openApiToTools(SampleSpec, SampleConfig).tools
    /\ calls = [i \in 1..MaxCalls |-> Idle]
    /\ backend = [i \in 1..MaxCalls |-> NoExchange]
    /\ NotServing

\* a request is in flight: handed to the client and not answered
InFlight(i) == backend[i].sent /\ ~ backend[i].answered

\* the handler is called and runs to its await, or to its catch block when
\* building the request throws; invocations are numbered as they begin
Invoke(i, inv) ==
    /\ calls[i].pc = "idle"
    /\ \A j \in 1..(i - 1) : calls[j].pc # "idle"
    /\ LET c == [Idle EXCEPT !.tool = inv.tool, !.args = inv.args,
                             !.overlapped = \E j \in 1..MaxCalls : InFlight(j)]
           b == BuildRequest(tools[inv.tool], inv.args)
       IN  IF b.threw
           THEN /\ calls' = [calls EXCEPT ![i] = Caught(c, b.err)]
                /\ UNCHANGED backend
           ELSE /\ calls' = [calls EXCEPT ![i] = [c EXCEPT !.pc = "awaiting", !.sent = 1]]
                /\ backend' = [backend EXCEPT ![i] =
                                  [NoExchange EXCEPT !.sent = TRUE, !.request = b.request]]
    /\ UNCHANGED <<spec, config, compiled, nameCount, tools, serverVars>>

\* the backend answers the request of invocation i with a response
Fulfil(i, res) ==
    /\ InFlight(i)
    /\ calls[Awaiter(i)].pc = "awaiting"
    /\ backend' = [backend EXCEPT ![i].answered = TRUE, ![i].outcome = res]
    /\ calls' = [calls EXCEPT ![Awaiter(i)] = OnFulfilled(calls[Awaiter(i)], res)]
    /\ UNCHANGED <<spec, config, compiled, nameCount, tools, serverVars>>

\* the request of invocation i fails
Reject(i, e) ==
    /\ InFlight(i)
    /\ calls[Awaiter(i)].pc = "awaiting"
    /\ backend' = [backend EXCEPT ![i].answered = TRUE, ![i].outcome = e]
    /\ calls' = [calls EXCEPT ![Awaiter(i)] = OnRejected(calls[Awaiter(i)], e)]
    /\ UNCHANGED <<spec, config, compiled, nameCount, tools, serverVars>>

NextInvoke ==
    \/ \E i \in 1..MaxCalls, inv \in Invocations : Invoke(i, inv)
    \/ \E i \in 1..MaxCalls, data \in Payloads : Fulfil(i, Response(200, data))
    \/ \E i \in 1..MaxCalls, e \in Failures : Reject(i, e)

SpecInvoke == InitInvoke /\ [][NextInvoke]_vars

(***************************************************************************)
(* Normalization as a state machine: one invocation of the tool without    *)
(* arguments, answered with any payload of a bounded set; the handler      *)
(* applies safeStringify to the payload.  The set holds every heap of two  *)
(* objects or arrays of at most MaxProps properties each, whose values are *)
(* a number, a string or a reference to either object, and the payloads    *)
(* that need defensive normalization.                                      *)
(***************************************************************************)
MaxProps == 2

Addresses == {1, 2}

KeyAt(i) == << <<"a">>, <<"b">>, <<"c">>, <<"d">> >>[i]

Leaves == { Num(1), Str(<<"x">>) }

Slots == Leaves \cup { Ref(a) : a \in Addresses }

Objects ==
    UNION { { Obj([i \in 1..n |-> Prop(KeyAt(i), vs[i])]) : vs \in [1..n -> Slots] }
            \cup { Arr(vs) : vs \in [1..n -> Slots] } : n \in 0..MaxProps }

Heaps == [Addresses -> Objects]

QuotedBody == Payload(NoHeap, Str(<<"s","a","y"," ","\"","h","i","\"">>))
UndefinedBody == Payload(NoHeap, Undefined)
NumberBody == Payload(NoHeap, Num(42))
BooleanBody == Payload(NoHeap, Bool(TRUE))
FunctionBody == Payload(NoHeap, Function)
SymbolBody == Payload(NoHeap, Symbol(<<"t","a","g">>))
NestedBody ==
    Payload((1 :> Obj(<< Prop(<<"l","i","s","t">>, Ref(2)), Prop(<<"o","k">>, Bool(FALSE)),
                         Prop(<<"n","o","n","e">>, Null) >>))
            @@ (2 :> Arr(<< Num(1), Null, Str(<<>>) >>)), Ref(1))

NormalizerInputs ==
    { Payload(h, Ref(1)) : h \in Heaps }
    \cup Payloads
    \cup { QuotedBody, UndefinedBody, NumberBody, BooleanBody, FunctionBody,
           SymbolBody, NestedBody }

\* the invocation of the tool that takes no argument
MessagesCall == [args |-> [p \in {} |-> Undefined], tool |-> 3]

NextNormalize ==
    \/ Invoke(1, MessagesCall)
    \/ \E data \in NormalizerInputs : Fulfil(1, Response(200, data))

SpecNormalize == InitInvoke /\ [][NextNormalize]_vars

(***************************************************************************)
(* Schema building as a state machine: openApiToTools compiles a document  *)
(* whose operation PUT /pet/{id} has up to MaxParams parameters, direct or *)
(* references into the shared dictionary, and a JSON request body.         *)
(***************************************************************************)
MaxParams == 2

LINK  == <<"l","i","n","k">>
NOPE  == <<"n","o","p","e">>
CTOR  == <<"c","o","n","s","t","r","u","c","t","o","r">>
NOTE  == <<"a"," ","n","o","t","e">>
OtherPrefix == <<"#","/","c","o","m","p","o","n","e","n","t","s","/","p","a","r","a","m","e","t","e","r","s","/">>

\* the shared dictionary: a required path parameter, an optional query
\* parameter, and an entry that is itself a reference
Dictionary ==
    << [key |-> ID,   param |-> [name |-> ID, required |-> RequiredTrue, in |-> "path"]],
       [key |-> Q,    param |-> [name |-> Q, in |-> "query"]],
       [key |-> LINK, param |-> [name |-> NAME, ref |-> RefPrefix \o ID, in |-> "query"]] >>

\* parameters declared in place
DirectParams ==
    { [name |-> ID, required |-> RequiredTrue, in |-> "path"],
      [name |-> ID, in |-> "path"],
      [name |-> Q, in |-> "query"],
      [name |-> Q, required |-> RequiredTrue, in |-> "query"],
      [name |-> Q, required |-> RequiredFalse, in |-> "query"],
      [name |-> Q, required |-> RequiredText, in |-> "query"],
      [name |-> Q, required |-> RequiredTrue, in |-> "header"],
      [name |-> NAME, in |-> "header"],
      [name |-> NAME, schema |-> [type |-> "integer"], description |-> NOTE,
       in |-> "query"],
      [name |-> Q, schema |-> [enum |-> << <<"a">>, <<"b">> >>], in |-> "path"] }

\* references, with and without fields declared alongside
RefParams ==
    { [ref |-> RefPrefix \o ID],
      [ref |-> RefPrefix \o ID, required |-> RequiredFalse],
      [ref |-> RefPrefix \o ID, required |-> RequiredText],
      [name |-> Q, ref |-> RefPrefix \o ID],
      [ref |-> RefPrefix \o ID, in |-> "header"],
      [ref |-> RefPrefix \o Q],
      [ref |-> RefPrefix \o Q, required |-> RequiredTrue],
      [ref |-> RefPrefix \o LINK],
      [ref |-> RefPrefix \o NOPE],
      [name |-> Q, ref |-> RefPrefix \o NOPE, in |-> "query"],
      [ref |-> OtherPrefix \o ID],
      [name |-> Q, ref |-> RefPrefix \o CTOR, required |-> RequiredTrue, in |-> "query"] }

ParamMenu == DirectParams \cup RefParams

ParamLists == UNION { [1..n -> ParamMenu] : n \in 0..MaxParams }

\* request bodies: none, one required property, two properties of which the
\* one listed as required has the name of a parameter, and a property with
\* a name every object inherits
Bodies ==
    { [bodyProps |-> <<>>, bodySchemas |-> <<>>, bodyRequired |-> <<>>],
      [bodyProps |-> <<NAME>>, bodySchemas |-> << [type |-> "string"] >>,
       bodyRequired |-> <<NAME>>],
      [bodyProps |-> <<Q, NAME>>,
       bodySchemas |-> << [description |-> NOTE, type |-> "boolean"],
                          [enum |-> << <<"x">> >>] >>,
       bodyRequired |-> <<Q>>],
      [bodyProps |-> <<CTOR>>, bodySchemas |-> << [type |-> "number"] >>,
       bodyRequired |-> <<>>] }

\* the operation PUT /pet/{id}
SchemaOp(ps, body) ==
    [parameters |-> ps, bodyProps |-> body.bodyProps, bodySchemas |-> body.bodySchemas,
     bodyRequired |-> body.bodyRequired, id |-> <<1, PUT>>]

\* the operation GET /messages
MessagesOp ==
    [parameters |-> << [name |-> QUERY, in |-> "query"] >>, bodyProps |-> <<>>,
     bodySchemas |-> <<>>, bodyRequired |-> <<>>, id |-> <<2, GET>>]

Entry(key, method, op) ==
    [key  |-> key,
     item |-> [entries |-> << [method |-> method, op |-> op] >>, wellFormed |-> TRUE]]

\* a document: the two operations and, when asked for, a path entry between
\* them whose value is not an object
SchemaSpec(ps, body, faulty) ==
    [paths |->
        << Entry(<<"/","p","e","t","/","{","i","d","}">>, PUT, SchemaOp(ps, body)) >>
        \o (IF faulty THEN << [key |-> <<"/","b","a","d">>, item |-> Malformed] >>
            ELSE <<>>)
        \o << Entry(<<"/","m","e","s","s","a","g","e","s">>, GET, MessagesOp) >>,
     parameters |-> Dictionary]

SchemaSpecs ==
    { SchemaSpec(ps, body, faulty) :
        ps \in ParamLists, body \in Bodies, faulty \in BOOLEAN }

InitSchema ==
    /\ spec \in SchemaSpecs
    /\ config = SampleConfig
    /\ compiled = FALSE
    /\ nameCount = [n \in {} |-> 0]
    /\ tools = <<>>
    /\ calls = [i \in 1..MaxCalls |-> Idle]
    /\ backend = [i \in 1..MaxCalls |-> NoExchange]
    /\ NotServing

SpecSchema == InitSchema /\ [][NextCompile]_vars

(***************************************************************************)
(* Path normalization as a state machine: openApiToTools compiles a        *)
(* document whose one path key is any string of at most MaxPathLen         *)
(* characters among a slash, a lower-case and two upper-case letters.      *)
(***************************************************************************)
MaxPathLen == 3

PathChars == {"/", "a", "A", "B"}

PathStrings == UNION { [1..n -> PathChars] : n \in 0..MaxPathLen }

PathSpecs ==
    { [paths |-> << Entry(key, GET, PlainOp(<<1, GET>>)) >>, parameters |-> <<>>] :
        key \in PathStrings }

InitPaths ==
    /\ spec \in PathSpecs
    /\ config = SampleConfig
    /\ compiled = FALSE
    /\ nameCount = [n \in {} |-> 0]
    /\ tools = <<>>
    /\ calls = [i \in 1..MaxCalls |-> Idle]
    /\ backend = [i \in 1..MaxCalls |-> NoExchange]
    /\ NotServing

SpecPaths == InitPaths /\ [][NextCompile]_vars

(***************************************************************************)
(* Type mapping as a state machine: openApiToTools compiles a document     *)
(* whose operation GET /messages has one typed input, a parameter or a     *)
(* body property, with any schema of the menu.                             *)
(***************************************************************************)
TypeTags == {"integer", "number", "boolean", "array", "string", "object", "null"}

Enums == { <<>>, << <<"a">>, <<"b">> >> }

\* schema objects: with and without a type tag, with and without an
\* enumeration, the enumeration empty or not
Schemas ==
    {NoFields} \cup { [type |-> t] : t \in TypeTags }
    \cup { [enum |-> e] : e \in Enums }
    \cup { [type |-> t, enum |-> e] : t \in TypeTags, e \in Enums }

\* one parameter, with a schema or without any
TypedParams ==
    { [name |-> Q, schema |-> sc, in |-> w] : w \in {"query", "path"}, sc \in Schemas }
    \cup { [name |-> Q, required |-> RequiredTrue, schema |-> sc, in |-> w] :
             w \in {"query", "path"}, sc \in Schemas }
    \cup { [name |-> Q, in |-> "query"] }

TypedOps ==
    { [parameters |-> <<par>>, bodyProps |-> <<>>, bodySchemas |-> <<>>,
       bodyRequired |-> <<>>, id |-> <<1, GET>>] : par \in TypedParams }
    \cup { [parameters |-> <<>>, bodyProps |-> <<Q>>, bodySchemas |-> <<sc>>,
            bodyRequired |-> req, id |-> <<1, GET>>] :
             sc \in Schemas, req \in {<<>>, <<Q>>} }

TypeSpecs ==
    { [paths |-> << Entry(<<"/","m","e","s","s","a","g","e","s">>, GET, op) >>,
       parameters |-> <<>>] : op \in TypedOps }

InitTypes ==
    /\ spec \in TypeSpecs
    /\ config = SampleConfig
    /\ compiled = FALSE
    /\ nameCount = [n \in {} |-> 0]
    /\ tools = <<>>
    /\ calls = [i \in 1..MaxCalls |-> Idle]
    /\ backend = [i \in 1..MaxCalls |-> NoExchange]
    /\ NotServing

SpecTypes == InitTypes /\ [][NextCompile]_vars

(***************************************************************************)
(* Naming as a state machine: openApiToTools compiles a document whose one *)
(* path key is any string of at most MaxSegmentLen characters among a      *)
(* slash, a letter and the two braces, under any tool prefix.              *)
(***************************************************************************)
MaxSegmentLen == 6

SegmentChars == {"/", "a", "{", "}"}

SegmentPaths == UNION { [1..n -> SegmentChars] : n \in 0..MaxSegmentLen }

SegmentSpecs ==
    { [paths |-> << Entry(key, GET, PlainOp(<<1, GET>>)) >>, parameters |-> <<>>] :
        key \in SegmentPaths }

InitSegments ==
    /\ spec \in SegmentSpecs
    /\ config = SampleConfig
    /\ compiled = FALSE
    /\ nameCount = [n \in {} |-> 0]
    /\ tools = <<>>
    /\ calls = [i \in 1..MaxCalls |-> Idle]
    /\ backend = [i \in 1..MaxCalls |-> NoExchange]
    /\ NotServing

SpecSegments == InitSegments /\ [][NextCompile]_vars

(***************************************************************************)
(* The request a handler builds: one invocation of a tool of a document    *)
(* whose operations share names between placeholders, parameters and body  *)
(* properties, with every small set of arguments.                          *)
(***************************************************************************)
MaxArgs == 2

X    == <<"x">>
Z    == <<"z">>
IDUP == <<"I","D">>

RequestOp(id, ps, body) ==
    [parameters |-> ps, bodyProps |-> body,
     bodySchemas |-> [i \in 1..Len(body) |-> NoFields],
     bodyRequired |-> <<>>, id |-> id]

\* GET /A/{Id}/{x}/{y}/{id}: path parameters ID and x, query parameters q
\* and constructor; PUT /b/{id}: path parameter id, query parameter q and the
\* body properties name, id and q; GET and PUT /c, told apart by their suffix
RequestSpec ==
    [paths |->
        << Entry(<<"/","A","/","{","I","d","}","/","{","x","}","/","{","y","}","/","{","i","d","}">>, GET,
                 RequestOp(<<1, GET>>,
                           << [name |-> IDUP, in |-> "path"],
                              [name |-> X, in |-> "path"],
                              [name |-> Q, in |-> "query"],
                              [name |-> CTOR, in |-> "query"] >>,
                           <<>>)),
           Entry(<<"/","b","/","{","i","d","}">>, PUT,
                 RequestOp(<<2, PUT>>,
                           << [name |-> ID, in |-> "path"],
                              [name |-> Q, in |-> "query"] >>,
                           <<NAME, ID, Q>>)),
           [key  |-> <<"/","c">>,
            item |-> [entries |->
                        << [method |-> GET,
                            op |-> RequestOp(<<3, GET>>,
                                             << [name |-> Q, in |-> "query"] >>, <<>>)],
                           [method |-> PUT,
                            op |-> RequestOp(<<3, PUT>>, <<>>, <<NAME>>)] >>,
                      wellFormed |-> TRUE]] >>,
     parameters |-> <<>>]

\* the names an argument is supplied under: declared ones and one declared nowhere
ArgNames == {ID, IDUP, X, Q, NAME, Z}

\* the values supplied: a number, plain strings, a string that reads as a
\* placeholder, strings that hold a replacement pattern, and null
ArgValues ==
    { Num(7), Str(<<"v">>), Str(<<"{","x","}">>), Str(<<"$","&">>),
      Str(<<"$","$">>), Null }

\* the argument objects of up to MaxArgs arguments
ArgObjects ==
    UNION { [S -> ArgValues] : S \in {T \in SUBSET ArgNames : Cardinality(T) <= MaxArgs} }

RequestInvocations ==
    [args : ArgObjects, tool : 1..Len(openApiToTools(RequestSpec, SampleConfig).tools)]

InitRequest ==
    /\ spec = RequestSpec
    /\ config = SampleConfig
    /\ compiled = TRUE
    /\ nameCount = openApiToTools(RequestSpec, SampleConfig).nameCount
    /\ tools = openApiToTools(RequestSpec, SampleConfig).tools
    /\ calls = [i \in 1..MaxCalls |-> Idle]
    /\ backend = [i \in 1..MaxCalls |-> NoExchange]
    /\ NotServing

NextRequest ==
    \/ \E inv \in RequestInvocations : Invoke(1, inv)
    \/ Fulfil(1, Response(200, NullBody))
    \/ Reject(1, Failure(TRUE, TRUE, NetworkMessage, FALSE, 0, Payload(NoHeap, Undefined)))

SpecRequest == InitRequest /\ [][NextRequest]_vars

(***************************************************************************)
(* combineInstructions as a state machine: main calls it once with the     *)
(* description of the document, the text of the instructions file and the  *)
(* configured mode.                                                        *)
(***************************************************************************)
MaxTextLen == 2

TextChars == {"a", "\n"}

\* the texts: null, undefined and the strings of up to MaxTextLen characters
Texts ==
    {Null, Undefined}
        \cup { Str(t) : t \in UNION { [1..n -> TextChars] : n \in 0..MaxTextLen } }

\* the modes of InstructionsMode, and a value that is none of them
Modes == {DEFAULT, REPLACE, APPEND, PREPEND, "none"}

InitInstructions ==
    /\ spec = SampleSpec
    /\ config = SampleConfig
    /\ compiled = TRUE
    /\ nameCount = openApiToTools(SampleSpec, SampleConfig).nameCount
    /\ tools = openApiToTools(SampleSpec, SampleConfig).tools
    /\ calls = [i \in 1..MaxCalls |-> Idle]
    /\ backend = [i \in 1..MaxCalls |-> NoExchange]
    /\ instructions \in
          { [NoInstructions EXCEPT !.openApi = o, !.file = f, !.mode = m] :
              o \in Texts, f \in Texts \ {Undefined}, m \in Modes }
    /\ sessions = NoSessions
    /\ requests = [r \in 1..MaxRequests |-> NoRequestYet]
    /\ pairs = [p \in 1..MaxRequests |-> NoPair]

NextInstructions == Combine

SpecInstructions == InitInstructions /\ [][NextInstructions]_vars

(***************************************************************************)
(* The session-keeping server as a state machine: up to MaxRequests        *)
(* requests are handled concurrently, each suspended at its awaits; the    *)
(* cleanup timer fires at any time.                                        *)
(***************************************************************************)
\* the Mcp-Session-Id headers a client sends: none, an id the server never
\* gave out, or an id taken from an earlier response
HeadersKnown ==
    {NoId, StaleId} \cup ({requests[q].responseId : q \in 1..MaxRequests} \ {NoId})

InitServer ==
    /\ spec = SampleSpec
    /\ config = SampleConfig
    /\ compiled = TRUE
    /\ nameCount = openApiToTools(SampleSpec, SampleConfig).nameCount
    /\ tools = openApiToTools(SampleSpec, SampleConfig).tools
    /\ calls = [i \in 1..MaxCalls |-> Idle]
    /\ backend = [i \in 1..MaxCalls |-> NoExchange]
    /\ NotServing

NextServer ==
    \/ \E r \in 1..MaxRequests : \E header \in HeadersKnown : Receive(r, header)
    \/ \E r \in 1..MaxRequests : Connected(r)
    \/ \E r \in 1..MaxRequests : SetHeader(r)
    \/ \E r \in 1..MaxRequests : Finish(r)
    \/ Sweep
    \/ Tick

SpecServer == InitServer /\ [][NextServer]_vars

\* the cleanup timer keeps firing and time keeps passing
SpecServerFair == SpecServer /\ WF_vars(Sweep) /\ WF_vars(Tick)

(***************************************************************************)
(* Claims about compilation, checked under SpecCompile.                    *)
(***************************************************************************)
ToolIndexes == 1..Len(tools)

\* the operations the collector finds: <<path entry, method>>
Collected ==
    { <<p, HTTP_METHODS[m]>> : p \in 1..Len(spec.paths), m \in 1..Len(HTTP_METHODS) }

IsCollected(p, method) ==
    spec.paths[p].item.wellFormed /\ HasMethod(spec.paths[p].item, method)

\* the operation became a tool
IsTool(p, method) == \E t \in ToolIndexes : tools[t].op.id = <<p, method>>

\* the endpoint key of an operation equals an entry of the list, letter case aside
KeyMatches(p, method, list) ==
    \E i \in 1..Len(list) :
        toLowerCase(opKey(method, spec.paths[p].key)) = toLowerCase(list[i])

\* C1: no two tools of a compiled tool list have the same name.
C1_NamesUnique ==
    \A i, j \in ToolIndexes : i # j => tools[i].name # tools[j].name

\* C3: with a non-empty include list an operation becomes a tool if and only
\* if its endpoint key equals an include entry, letter case aside; the
\* exclude list has no influence.
C3_IncludeDecides ==
    (compiled /\ Len(config.includeEndpoints) > 0) =>
        /\ \A o \in Collected :
              IsTool(o[1], o[2]) <=>
                  /\ IsCollected(o[1], o[2])
                  /\ KeyMatches(o[1], o[2], config.includeEndpoints)
        /\ \A t \in ToolIndexes : tools[t].op.id \in Collected

\* a key of both lists is kept while a key of neither list is dropped
C3_Witness ==
    /\ compiled
    /\ Len(config.includeEndpoints) > 0
    /\ \E o \in Collected :
          /\ IsCollected(o[1], o[2])
          /\ KeyMatches(o[1], o[2], config.includeEndpoints)
          /\ KeyMatches(o[1], o[2], config.excludeEndpoints)
          /\ IsTool(o[1], o[2])
    /\ \E o \in Collected :
          /\ IsCollected(o[1], o[2])
          /\ ~ KeyMatches(o[1], o[2], config.includeEndpoints)
          /\ ~ KeyMatches(o[1], o[2], config.excludeEndpoints)
          /\ ~ IsTool(o[1], o[2])

\* C4: with an empty include list an operation becomes a tool if and only if
\* its endpoint key equals no exclude entry, letter case aside; with both
\* lists empty every collected operation becomes a tool.
C4_ExcludeDecides ==
    (compiled /\ Len(config.includeEndpoints) = 0) =>
        /\ \A o \in Collected :
              IsTool(o[1], o[2]) <=>
                  /\ IsCollected(o[1], o[2])
                  /\ ~ KeyMatches(o[1], o[2], config.excludeEndpoints)
        /\ Len(config.excludeEndpoints) = 0 =>
              \A o \in Collected : IsCollected(o[1], o[2]) => IsTool(o[1], o[2])
        /\ \A t \in ToolIndexes : tools[t].op.id \in Collected

\* an entry written in upper case excludes one operation and another is kept
C4_Witness ==
    /\ compiled
    /\ Len(config.includeEndpoints) = 0
    /\ \E o \in Collected :
          /\ IsCollected(o[1], o[2])
          /\ KeyMatches(o[1], o[2], config.excludeEndpoints)
          /\ \A i \in 1..Len(config.excludeEndpoints) :
                opKey(o[2], spec.paths[o[1]].key) # config.excludeEndpoints[i]
          /\ ~ IsTool(o[1], o[2])
    /\ \E o \in Collected : IsCollected(o[1], o[2]) /\ IsTool(o[1], o[2])

\* the number of tools (kept operations) with the base name of tool t
SameBase(t) ==
    Cardinality({u \in ToolIndexes :
        BaseName(config.toolPrefix, tools[u].path)
            = BaseName(config.toolPrefix, tools[t].path)})

\* C5: a tool's name is base_method if and only if two or more kept
\* operations have its base name, and is the base name otherwise.
C5_SuffixOnKeptCollisions ==
    compiled =>
        \A t \in ToolIndexes :
            LET base == BaseName(config.toolPrefix, tools[t].path)
            IN  /\ (tools[t].name = base \o <<"_">> \o tools[t].method)
                       <=> SameBase(t) >= 2
                /\ SameBase(t) < 2 => tools[t].name = base

\* an operation dropped by the filter has the base name of a kept one, which
\* keeps the bare base name
C5_Witness ==
    /\ compiled
    /\ \E t \in ToolIndexes :
          /\ tools[t].name = BaseName(config.toolPrefix, tools[t].path)
          /\ \E o \in Collected :
                /\ IsCollected(o[1], o[2])
                /\ ~ IsTool(o[1], o[2])
                /\ BaseName(config.toolPrefix, normPath(spec.paths[o[1]].key))
                       = BaseName(config.toolPrefix, tools[t].path)

MethodIndex(method) ==
    CHOOSE m \in 1..Len(HTTP_METHODS) : HTTP_METHODS[m] = method

ToolNames(ts) == [t \in 1..Len(ts) |-> ts[t].name]

\* the tools follow the path entries, and within one entry the fixed methods
InDocumentOrder ==
    \A i, j \in ToolIndexes :
        i < j =>
            \/ tools[i].op.id[1] < tools[j].op.id[1]
            \/ /\ tools[i].op.id[1] = tools[j].op.id[1]
               /\ MethodIndex(tools[i].op.id[2]) < MethodIndex(tools[j].op.id[2])

CallIds == 1..MaxCalls

Returned(i) == calls[i].pc = "returned"

\* the failure of a returned invocation, if it failed: what building its
\* request threw, or the rejection of its request
BuildOf(i) == BuildRequest(tools[calls[i].tool], calls[i].args)

HasFailed(i) == BuildOf(i).threw \/ (backend[i].answered /\ ~ backend[i].outcome.fulfilled)

FailureOf(i) == IF BuildOf(i).threw THEN BuildOf(i).err ELSE backend[i].outcome

TextOf(i) == calls[i].result.content[1].text

Flagged(i) == "isError" \in DOMAIN calls[i].result /\ calls[i].result.isError = TRUE

\* C2: every invocation ends by returning an envelope with exactly one
\* content block of type text, whatever the arguments and the outcome; none
\* ends with an exception leaving the handler, and an invocation that has not
\* returned waits only for the backend's answer to its request.
C2_AlwaysOneTextBlock ==
    \A i \in CallIds :
        /\ calls[i].pc # "thrown"
        /\ calls[i].pc = "awaiting" => InFlight(i)
        /\ Returned(i) =>
              /\ Len(calls[i].result.content) = 1
              /\ calls[i].result.content[1].type = "text"

\* C7: the envelope carries the error flag if and only if the invocation
\* failed; on success it has no isError field and its text is the
\* normalizer's output for the response payload, on failure isError is true
\* and the text starts with 'Error: '.
C7_FlagIffFailed ==
    \A i \in CallIds :
        Returned(i) =>
            /\ ("isError" \in DOMAIN calls[i].result) <=> HasFailed(i)
            /\ HasFailed(i) => (Flagged(i) /\ StartsWith(TextOf(i), ErrorMarker))
            /\ ~ HasFailed(i) =>
                  /\ backend[i].answered /\ backend[i].outcome.fulfilled
                  /\ TextOf(i) = safeStringify(backend[i].outcome.data)

\* the failure carries a response whose body is an object with an 'error' key
BodyHasError(e) ==
    /\ e.hasResponse
    /\ e.data.root.k = "object"
    /\ ~ e.data.heap[e.data.root.n].isArray
    /\ \E k \in 1..Len(e.data.heap[e.data.root.n].props) :
          e.data.heap[e.data.root.n].props[k].key = <<"e","r","r","o","r">>

BodyError(e) ==
    LET o == e.data.heap[e.data.root.n]
    IN  o.props[CHOOSE k \in 1..Len(o.props) : o.props[k].key = <<"e","r","r","o","r">>].val

C9_NoRetry ==
    \A i \in CallIds :
        /\ calls[i].sent <= 1
        /\ (backend[i].answered /\ ~ backend[i].outcome.fulfilled) =>
              (Returned(i) /\ Flagged(i) /\ calls[i].sent = 1)

\* the envelope the handler returns for the arguments and the backend's
\* answer of invocation i alone
OwnEnvelope(i) ==
    IF BuildOf(i).threw THEN ErrorEnvelope(ErrorMessage(BuildOf(i).err))
    ELSE IF backend[i].outcome.fulfilled
         THEN IF safeStringifyThrows(backend[i].outcome.data)
              THEN ErrorEnvelope(ErrorMessage(ConversionError))
              ELSE SuccessEnvelope(backend[i].outcome)
    ELSE ErrorEnvelope(ErrorMessage(backend[i].outcome))

\* C10: under every interleaving, the envelope an invocation returns is the
\* one determined by its own arguments and the backend's answer to its own
\* request, whatever the other invocations did; an invocation that ends
\* without an envelope does so on the answer to its own request.
C10_Independent ==
    \A i \in CallIds :
        /\ Returned(i) =>
              /\ BuildOf(i).threw \/ backend[i].answered
              /\ calls[i].result = OwnEnvelope(i)
        /\ calls[i].pc = "thrown" =>
              /\ backend[i].answered /\ ~ backend[i].outcome.fulfilled
              /\ MessageThrows(backend[i].outcome)
        /\ backend[i].sent => backend[i].request = BuildOf(i).request

\* two invocations of the same tool in flight together, one failed and the
\* other succeeded
C10_Witness ==
    \E i, j \in CallIds :
        /\ i # j
        /\ calls[i].tool = calls[j].tool
        /\ calls[j].overlapped
        /\ Returned(i) /\ Flagged(i) /\ backend[i].answered
        /\ Returned(j) /\ ~ Flagged(j) /\ backend[j].answered


(***************************************************************************)
(* JSON.parse, for the texts JSON.stringify produces (no white space,      *)
(* natural numbers).  A parsed value is a tree [k, s, n, items, members]:  *)
(* its kind, a string's characters, a number's value or a boolean as 0 or  *)
(* 1, an array's items, and an object's members by key.                    *)
(***************************************************************************)
Tree(k, chars, n, items, members) ==
    [s |-> chars, n |-> n, k |-> k, items |-> items, members |-> members]

NoMembers == [key \in {} |-> 0]

TNull          == Tree("null", <<>>, 0, <<>>, NoMembers)
TStr(chars)    == Tree("string", chars, 0, <<>>, NoMembers)
TNum(n)        == Tree("number", <<>>, n, <<>>, NoMembers)
TBool(n)       == Tree("boolean", <<>>, n, <<>>, NoMembers)
TArr(items)    == Tree("array", <<>>, 0, items, NoMembers)
TObj(members)  == Tree("object", <<>>, 0, <<>>, members)

Parsed(val, next) == [val |-> val, next |-> next, ok |-> TRUE]
ParseError == [val |-> TNull, next |-> 0, ok |-> FALSE]

\* the character at position i of the text, "" past its end
At(t, i) == IF i >= 1 /\ i <= Len(t) THEN t[i] ELSE ""

\* the text holds the word at position i
WordAt(t, i, word) ==
    i + Len(word) - 1 <= Len(t) /\ SubSeq(t, i, i + Len(word) - 1) = word

DigitChars == <<"0","1","2","3","4","5","6","7","8","9">>

IsDigit(c) == \E d \in 1..10 : DigitChars[d] = c

DigitValue(c) == (CHOOSE d \in 1..10 : DigitChars[d] = c) - 1

\* the characters of a string literal from position i, after its opening quote
RECURSIVE ParseString(_, _, _)
ParseString(t, i, acc) ==
    IF i > Len(t) THEN ParseError
    ELSE IF t[i] = "\"" THEN Parsed(TStr(acc), i + 1)
    ELSE IF t[i] = "\\"
         THEN IF At(t, i + 1) \in {"\"", "\\"}
              THEN ParseString(t, i + 2, Append(acc, t[i + 1]))
              ELSE ParseError
         ELSE ParseString(t, i + 1, Append(acc, t[i]))

\* the digits of a number from position i
RECURSIVE ParseDigits(_, _, _)
ParseDigits(t, i, acc) ==
    IF IsDigit(At(t, i)) THEN ParseDigits(t, i + 1, acc * 10 + DigitValue(t[i]))
    ELSE Parsed(TNum(acc), i)

RECURSIVE ParseValue(_, _)
RECURSIVE ParseItems(_, _, _)
RECURSIVE ParseMembers(_, _, _)

\* the items of an array from position i, after "[" or ","
ParseItems(t, i, acc) ==
    LET v == ParseValue(t, i)
    IN  IF ~ v.ok THEN ParseError
        ELSE IF At(t, v.next) = "," THEN ParseItems(t, v.next + 1, Append(acc, v.val))
        ELSE IF At(t, v.next) = "]" THEN Parsed(TArr(Append(acc, v.val)), v.next + 1)
        ELSE ParseError

\* the members of an object from position i, after "{" or ","; a key that
\* occurs again replaces the earlier member
ParseMembers(t, i, acc) ==
    IF At(t, i) # "\"" THEN ParseError
    ELSE LET key == ParseString(t, i + 1, <<>>)
         IN  IF ~ key.ok \/ At(t, key.next) # ":" THEN ParseError
             ELSE LET v == ParseValue(t, key.next + 1)
                      members == [f \in (DOMAIN acc) \cup {key.val.s} |->
                                     IF f = key.val.s THEN v.val ELSE acc[f]]
                  IN  IF ~ v.ok THEN ParseError
                      ELSE IF At(t, v.next) = "," THEN ParseMembers(t, v.next + 1, members)
                      ELSE IF At(t, v.next) = "}" THEN Parsed(TObj(members), v.next + 1)
                      ELSE ParseError

ParseValue(t, i) ==
    CASE WordAt(t, i, <<"n","u","l","l">>)     -> Parsed(TNull, i + 4)
      [] WordAt(t, i, <<"t","r","u","e">>)     -> Parsed(TBool(1), i + 4)
      [] WordAt(t, i, <<"f","a","l","s","e">>) -> Parsed(TBool(0), i + 5)
      [] At(t, i) = "\""                       -> ParseString(t, i + 1, <<>>)
      [] IsDigit(At(t, i))                     -> ParseDigits(t, i, 0)
      [] At(t, i) = "["                        ->
            IF At(t, i + 1) = "]" THEN Parsed(TArr(<<>>), i + 2)
            ELSE ParseItems(t, i + 1, <<>>)
      [] At(t, i) = "{"                        ->
            IF At(t, i + 1) = "}" THEN Parsed(TObj(NoMembers), i + 2)
            ELSE ParseMembers(t, i + 1, NoMembers)
      [] OTHER                                 -> ParseError

\* JSON.parse(text): the whole text is one value
JsonParse(t) ==
    LET r == ParseValue(t, 1)
    IN  IF r.ok /\ r.next = Len(t) + 1 THEN r ELSE ParseError


(***************************************************************************)
(* Claims about normalization, checked under SpecNormalize.                *)
(***************************************************************************)
\* the payload the backend answered invocation i with
Answered(i) == backend[i].answered /\ backend[i].outcome.fulfilled

DataOf(i) == backend[i].outcome.data

\* the addresses a value refers to
Targets(v) == IF v.k = "object" THEN {v.n} ELSE {}

\* the addresses the objects of the set refer to
Successors(heap, as) ==
    UNION { UNION { Targets(heap[a].props[j].val) : j \in 1..Len(heap[a].props) } : a \in as }

\* the addresses reachable from the set in at most n steps
RECURSIVE ReachIn(_, _, _)
ReachIn(heap, as, n) ==
    IF n = 0 THEN as ELSE ReachIn(heap, as \cup Successors(heap, as), n - 1)

Reachable(heap, as) == ReachIn(heap, as, Cardinality(DOMAIN heap))

\* an object of the payload is reachable from itself
HasCycle(data) ==
    \E a \in Reachable(data.heap, Targets(data.root)) :
        a \in Reachable(data.heap, Successors(data.heap, {a}))

PlainKinds == {"object", "string", "number", "boolean", "null"}

\* the payload is built from mappings, sequences, strings, numbers, booleans
\* and null
IsPlain(data) ==
    /\ data.root.k \in PlainKinds
    /\ \A a \in Reachable(data.heap, Targets(data.root)) :
          \A j \in 1..Len(data.heap[a].props) : data.heap[a].props[j].val.k \in PlainKinds

\* the value a payload without cycle denotes
RECURSIVE Unfold(_, _)
Unfold(heap, v) ==
    CASE v.k = "null"    -> TNull
      [] v.k = "string"  -> TStr(v.s)
      [] v.k = "number"  -> TNum(v.n)
      [] v.k = "boolean" -> TBool(v.n)
      [] v.k = "object"  ->
            LET o == heap[v.n]
            IN  IF o.isArray
                THEN TArr([j \in 1..Len(o.props) |-> Unfold(heap, o.props[j].val)])
                ELSE TObj([key \in {o.props[j].key : j \in 1..Len(o.props)} |->
                            Unfold(heap, o.props[CHOOSE j \in 1..Len(o.props) :
                                                     o.props[j].key = key].val)])

\* the placeholder of a reference that is not followed
Placeholder == TStr(<<"[","C","i","r","c","u","l","a","r","]">>)

\* the text holds the word
Contains(t, word) == \E i \in 1..Len(t) : WordAt(t, i, word)

\* C11: safeStringify returns a string for every input and never throws; when
\* the structural encoding fails the string is the encoding of an object with
\* the error marker and the failure message.
C11_NeverThrows ==
    \A i \in CallIds :
        Answered(i) =>
            /\ ~ safeStringifyThrows(DataOf(i))
            /\ Returned(i) /\ ~ Flagged(i)
            /\ JsonParse(TextOf(i)).ok
            /\ SerializeValue(DataOf(i).heap, DataOf(i).root, {}).threw =>
                  LET d == JsonParse(TextOf(i)).val
                  IN  /\ d.k = "object"
                      /\ DOMAIN d.members = {<<"e","r","r","o","r">>, <<"m","e","s","s","a","g","e">>}
                      /\ d.members[<<"e","r","r","o","r">>].k = "string"
                      /\ d.members[<<"m","e","s","s","a","g","e">>].k = "string"

\* the tree renders the value: scalars as themselves, a reference to an
\* object the walk is inside of (an ancestor) as the placeholder, any other
\* object as its members rendered in turn or, when the walk met it before,
\* as the placeholder
RECURSIVE Renders(_, _, _, _)
Renders(tree, heap, v, ancestors) ==
    IF v.k # "object" THEN tree = Unfold(heap, v)
    ELSE IF v.n \in ancestors THEN tree = Placeholder
    ELSE LET o == heap[v.n]
         IN  \/ tree = Placeholder
             \/ /\ o.isArray
                /\ tree.k = "array"
                /\ Len(tree.items) = Len(o.props)
                /\ \A j \in 1..Len(o.props) :
                      Renders(tree.items[j], heap, o.props[j].val, ancestors \cup {v.n})
             \/ /\ ~ o.isArray
                /\ tree.k = "object"
                /\ DOMAIN tree.members = {o.props[j].key : j \in 1..Len(o.props)}
                /\ \A j \in 1..Len(o.props) :
                      Renders(tree.members[o.props[j].key], heap, o.props[j].val,
                              ancestors \cup {v.n})

\* C12: normalizing a payload with a reference cycle terminates with a
\* success without error flag, and its text renders the payload with every
\* reference back to an object of the walk as the placeholder '[Circular]',
\* the root itself never being a placeholder.
C12_CycleTerminates ==
    \A i \in CallIds :
        (Answered(i) /\ IsPlain(DataOf(i)) /\ HasCycle(DataOf(i))) =>
            /\ Returned(i) /\ ~ Flagged(i)
            /\ TextOf(i) = safeStringify(DataOf(i))
            /\ JsonParse(TextOf(i)).ok
            /\ JsonParse(TextOf(i)).val # Placeholder
            /\ Renders(JsonParse(TextOf(i)).val, DataOf(i).heap, DataOf(i).root, {})
            /\ Contains(TextOf(i), <<"[","C","i","r","c","u","l","a","r","]">>)

\* a cycle through two objects was normalized
C12_Witness ==
    \E i \in CallIds :
        /\ Answered(i) /\ Returned(i) /\ IsPlain(DataOf(i))
        /\ DataOf(i).root = Ref(1) /\ DOMAIN DataOf(i).heap = Addresses
        /\ 1 \in Reachable(DataOf(i).heap, {2})
        /\ 2 \in Reachable(DataOf(i).heap, Successors(DataOf(i).heap, {1}))
        /\ Contains(TextOf(i), <<"[","C","i","r","c","u","l","a","r","]">>)

\* C13: for every payload without a reference cycle that is built from
\* mappings, sequences, strings, numbers, booleans and null, parsing the
\* normalizer's output yields a value structurally equal to the payload and
\* the output holds no circular-reference placeholder.
C13_RoundTrip ==
    \A i \in CallIds :
        (Answered(i) /\ IsPlain(DataOf(i)) /\ ~ HasCycle(DataOf(i))) =>
            /\ Returned(i) /\ ~ Flagged(i)
            /\ JsonParse(TextOf(i)).ok
            /\ JsonParse(TextOf(i)).val = Unfold(DataOf(i).heap, DataOf(i).root)
            /\ ~ Contains(TextOf(i), <<"[","C","i","r","c","u","l","a","r","]">>)

\* the characters JSON.stringify writes with a backslash
NeedsEscaping(t) == \E j \in 1..Len(t) : t[j] \in {"\"", "\\"}

\* C14: a scalar body is encoded exactly once: a string s yields an encoding
\* that parses back to s, is s between two quotes when s needs no escaping,
\* and is neither s itself nor the encoding of the encoding; a null body and
\* an undefined body yield the text 'null'.
C14_ScalarOnce ==
    \A i \in CallIds :
        Answered(i) =>
            /\ DataOf(i).root.k = "string" =>
                  LET s == DataOf(i).root.s
                  IN  /\ Returned(i) /\ ~ Flagged(i)
                      /\ JsonParse(TextOf(i)).ok
                      /\ JsonParse(TextOf(i)).val = TStr(s)
                      /\ TextOf(i) # s
                      /\ ~ NeedsEscaping(s) =>
                            /\ TextOf(i) = <<"\"">> \o s \o <<"\"">>
                            /\ Len(TextOf(i)) = Len(s) + 2
            /\ DataOf(i).root.k \in {"null", "undefined"} =>
                  /\ Returned(i) /\ ~ Flagged(i)
                  /\ TextOf(i) = <<"n","u","l","l">>

\* the string body of the test has been returned between two quotes
C14_Witness ==
    /\ Returned(1) /\ Answered(1) /\ ~ Flagged(1)
    /\ DataOf(1) = StringBody
    /\ Len(TextOf(1)) = Len(StringBody.root.s) + 2
    /\ Head(TextOf(1)) = "\""


(***************************************************************************)
(* Claims about the input schema, checked under SpecSchema.                *)
(***************************************************************************)
\* the resolved parameters of the operation a tool was compiled from
ResolvedOf(k) == ResolvedFrom(tools[k].op.parameters, 1, spec)

\* the resolved parameters located in the query or in the path
Located(k) ==
    { j \in 1..Len(ResolvedOf(k)) :
        HasField(ResolvedOf(k)[j], "in") /\ ResolvedOf(k)[j]["in"] \in {"query", "path"} }

LocatedNames(k) == { ResolvedOf(k)[j].name : j \in Located(k) }

BodyNames(k) == { tools[k].op.bodyProps[j] : j \in 1..Len(tools[k].op.bodyProps) }

\* the parameter that gives the field its definition: the last one of the name
Definer(k, n) ==
    CHOOSE j \in Located(k) :
        /\ ResolvedOf(k)[j].name = n
        /\ \A i \in Located(k) : ResolvedOf(k)[i].name = n => i <= j

\* C15: the input schema of a tool has exactly the fields named by a resolved
\* parameter located in 'query' or 'path' or by a request-body property not
\* so named; a name shared by a body property and such a parameter has the
\* type, optionality and description of the parameter.
C15_SchemaFields ==
    compiled =>
        \A k \in ToolIndexes :
            /\ DOMAIN tools[k].inputSchema = LocatedNames(k) \cup BodyNames(k)
            /\ \A n \in LocatedNames(k) :
                  LET par == ResolvedOf(k)[Definer(k, n)]
                  IN  /\ tools[k].inputSchema[n].optional
                            = ~ (HasField(par, "required") /\ par.required = RequiredTrue)
                      /\ tools[k].inputSchema[n].description
                            = (IF HasField(par, "description") THEN par.description ELSE <<>>)
                      /\ tools[k].inputSchema[n].type
                            = openApiTypeToZod(SchemaOf(par), <<>>, TRUE).type

\* the document marks the field as required: the parameter that defines it,
\* after reference resolution, or else the body's required list
DeclaredRequired(k, n) ==
    IF n \in LocatedNames(k)
    THEN LET par == ResolvedOf(k)[Definer(k, n)]
         IN  HasField(par, "required") /\ par.required = RequiredTrue
    ELSE Includes(tools[k].op.bodyRequired, n)

\* C16: a schema field rejects absence if and only if it is explicitly
\* required: a parameter whose 'required' is exactly true after reference
\* resolution, a body property whose name is in the body schema's required
\* list; every other field accepts absence.
C16_RequiredIffExplicit ==
    compiled =>
        \A k \in ToolIndexes :
            \A n \in DOMAIN tools[k].inputSchema :
                (~ tools[k].inputSchema[n].optional) <=> DeclaredRequired(k, n)

\* a compiled schema with a required and an optional field, the optional one
\* from a parameter whose 'required' is the string 'true'
C16_Witness ==
    /\ compiled
    /\ \E k \in ToolIndexes :
          /\ spec.paths[1].item.entries[1].op.parameters
                = << [name |-> ID, required |-> RequiredTrue, in |-> "path"],
                     [name |-> Q, required |-> RequiredText, in |-> "query"] >>
          /\ tools[k].op = spec.paths[1].item.entries[1].op
          /\ ~ tools[k].inputSchema[ID].optional
          /\ tools[k].inputSchema[Q].optional


\* the references among the parameters of an operation that name an entry
\* of the dictionary
NamesEntry(param) ==
    /\ HasField(param, "ref")
    /\ StartsWith(param.ref, RefPrefix)
    /\ \E e \in 1..Len(spec.parameters) :
          spec.parameters[e].key = SubSeq(param.ref, Len(RefPrefix) + 1, Len(param.ref))

TargetOf(param) ==
    spec.parameters[CHOOSE e \in 1..Len(spec.parameters) :
        spec.parameters[e].key = SubSeq(param.ref, Len(RefPrefix) + 1, Len(param.ref))].param

\* C18: resolving a reference parameter yields the referenced definition
\* with every field declared alongside the reference overriding the same
\* field of the target, the schema field following the local 'required',
\* and the resolved definition has no pointer field whatever the target
\* holds.
C18_ReferenceMerge ==
    compiled =>
        \A k \in ToolIndexes :
            \A i \in 1..Len(tools[k].op.parameters) :
                LET p == tools[k].op.parameters[i]
                    r == resolveParameter(p, spec)
                IN  NamesEntry(p) =>
                        /\ r.found
                        /\ "ref" \notin DOMAIN r.param
                        /\ \A f \in (DOMAIN p) \ {"ref"} :
                              f \in DOMAIN r.param /\ r.param[f] = p[f]
                        /\ \A f \in (DOMAIN TargetOf(p)) \ ((DOMAIN p) \cup {"ref"}) :
                              f \in DOMAIN r.param /\ r.param[f] = TargetOf(p)[f]
                        /\ (/\ Len(tools[k].op.parameters) = 1
                            /\ r.param["in"] \in {"query", "path"}
                            /\ HasField(p, "required"))
                              => (tools[k].inputSchema[r.param.name].optional
                                      <=> p.required # RequiredTrue)

\* a reference that does not start with '#/parameters/' or names no entry
\* of the dictionary
Unresolvable(param) == HasField(param, "ref") /\ ~ NamesEntry(param)

\* the sequence without its element i
Without(seq, i) == SubSeq(seq, 1, i - 1) \o SubSeq(seq, i + 1, Len(seq))

\* the document without parameter i of the operation PUT /pet/{id}
WithoutParameter(s, i) ==
    [s EXCEPT !.paths[1].item.entries[1].op.parameters = Without(@, i)]

RECURSIVE WellFormedOnly(_)
WellFormedOnly(paths) ==
    IF paths = <<>> THEN <<>>
    ELSE (IF Head(paths).item.wellFormed THEN <<Head(paths)>> ELSE <<>>)
         \o WellFormedOnly(Tail(paths))

\* the document without the path entries that are no mapping
WithoutMalformed(s) == [s EXCEPT !.paths = WellFormedOnly(@)]

\* what a tool is apart from the operation object it keeps
Outline(tool) ==
    [f \in (DOMAIN tool) \ {"op"} |-> tool[f]]

\* C19: a path entry whose value is not a mapping yields no tool, an
\* unresolvable parameter reference yields no schema field, no query name
\* and no path-parameter name; the operation that owns the parameter is
\* compiled all the same and every tool is what it is without the faulty
\* element.
C19_SkipAndContinue ==
    compiled =>
        /\ tools = openApiToTools(WithoutMalformed(spec), config).tools
        /\ \A k \in ToolIndexes :
              \E e \in 1..Len(spec.paths) :
                  spec.paths[e].item.wellFormed /\ tools[k].path = normPath(spec.paths[e].key)
        /\ Len(tools) = 2
        /\ \A i \in 1..Len(spec.paths[1].item.entries[1].op.parameters) :
              Unresolvable(spec.paths[1].item.entries[1].op.parameters[i]) =>
                  LET others == openApiToTools(WithoutParameter(spec, i), config).tools
                  IN  /\ Len(others) = Len(tools)
                      /\ Outline(tools[1]) = Outline(others[1])
                      /\ tools[2] = others[2]

(***************************************************************************)
(* Claims about the type mapping, checked under SpecTypes.                 *)
(***************************************************************************)
\* the schema of the one typed input of the document, NoFields when the
\* parameter has none
TypedSchema ==
    LET op == spec.paths[1].item.entries[1].op
    IN  IF op.parameters # <<>>
        THEN (IF "schema" \in DOMAIN op.parameters[1]
              THEN op.parameters[1].schema ELSE NoFields)
        ELSE op.bodySchemas[1]

\* C17: the type of a field is a function of the enumeration and the type
\* tag: a non-empty enumeration gives the closed choice of its values
\* whatever the tag; otherwise integer and number give number, boolean gives
\* boolean, array gives array, and every other tag, no tag and no schema
\* give string.
C17_TypeMapping ==
    compiled =>
        LET sc    == TypedSchema
            field == tools[1].inputSchema[Q]
            tag   == IF "type" \in DOMAIN sc THEN sc.type ELSE "none"
        IN  IF "enum" \in DOMAIN sc /\ Len(sc.enum) > 0
            THEN field.type = "enum" /\ field.choices = sc.enum
            ELSE /\ field.choices = <<>>
                 /\ tag \in {"integer", "number"} => field.type = "number"
                 /\ tag = "boolean" => field.type = "boolean"
                 /\ tag = "array" => field.type = "array"
                 /\ tag \notin {"integer", "number", "boolean", "array"}
                       => field.type = "string"

\* an integer parameter compiled to a numeric field
C17_Witness ==
    /\ compiled
    /\ spec.paths[1].item.entries[1].op.parameters
          = << [name |-> Q, schema |-> [type |-> "integer"], in |-> "query"] >>
    /\ tools[1].inputSchema[Q].type = "number"


(***************************************************************************)
(* Claims about path normalization, checked under SpecPaths.               *)
(***************************************************************************)
\* C20: the normalized path of every path string begins with exactly one
\* '/', holds no upper-case letter, and is left unchanged by normalizing it
\* again.
C20_NormalizedPath ==
    compiled =>
        \A k \in ToolIndexes :
            LET n == tools[k].path
            IN  /\ Len(n) >= 1 /\ n[1] = "/"
                /\ Len(n) >= 2 => n[2] # "/"
                /\ \A j \in 1..Len(n) : n[j] \notin {"A", "B"}
                /\ normPath(n) = n


(***************************************************************************)
(* Claims about naming, checked under SpecSegments and SpecCompile.         *)
(***************************************************************************)
\* the steps in the order stated: strip the leading slash, drop the
\* placeholders, collapse the runs of slashes, trim a trailing underscore
StatedSegment(path) ==
    LET t == StripTrailingUnderscore(
                 CollapseSlashes(
                     RemovePathParams(
                         StripLeadingSlash(path))))
    IN  IF t = <<>> THEN <<"i","n","d","e","x">> ELSE t

\* C21: the name segment of a path is the result of the stated steps in the
\* stated order on the normalized path; it is not empty, holds no '/', '{'
\* or '}' and does not end with '_'.
C21_SegmentSteps ==
    compiled =>
        \A k \in ToolIndexes :
            LET seg == tools[k].name
            IN  /\ seg = StatedSegment(tools[k].path)
                /\ seg # <<>>
                /\ \A j \in 1..Len(seg) : seg[j] \notin {"/", "{", "}"}
                /\ seg[Len(seg)] # "_"

\* the configured prefix without one trailing underscore
TrimmedPrefix ==
    LET p == config.toolPrefix
    IN  IF p # <<>> /\ p[Len(p)] = "_" THEN SubSeq(p, 1, Len(p) - 1) ELSE p

\* the base name the prefix rule gives the tool k
PrefixedSegment(k) ==
    IF config.toolPrefix = <<>>
    THEN pathToToolSegment(tools[k].path)
    ELSE TrimmedPrefix \o <<"_">> \o pathToToolSegment(tools[k].path)

\* C22: every tool's name is its prefixed base name (the prefix without one
\* trailing underscore, '_', the segment; the segment alone when the prefix is
\* empty), alone or followed by '_' and the method, and the base name is the one
\* the collision count is kept under.
C22_PrefixedBaseName ==
    compiled =>
        \A k \in ToolIndexes :
            /\ tools[k].name \in
                  { PrefixedSegment(k),
                    PrefixedSegment(k) \o <<"_">> \o tools[k].method }
            /\ PrefixedSegment(k) \in DOMAIN nameCount
            /\ config.toolPrefix \in {<<"t", "g">>, <<"t", "g", "_">>} =>
                  SubSeq(tools[k].name, 1, 4) = <<"t", "g", "_", "p">>

\* the prefix 'tg_' on two methods of /pet: the suffix follows the prefixed name
C22_Witness ==
    /\ compiled
    /\ config.toolPrefix = <<"t", "g", "_">>
    /\ \E k \in ToolIndexes :
          /\ tools[k].path = <<"/", "p", "e", "t">>
          /\ tools[k].method = GET
          /\ tools[k].name = <<"t", "g", "_", "p", "e", "t", "_">> \o GET

(***************************************************************************)
(* Claims about the request of an invocation, checked under SpecRequest    *)
(* and SpecInvoke.                                                         *)
(***************************************************************************)
\* the argument p is supplied and is not null
Supplied(args, p) == p \in DOMAIN args /\ args[p].k \notin {"undefined", "null"}

\* the template with each placeholder of a supplied name of names replaced,
\* in one pass, by the string form of its argument
RECURSIVE StatedUrl(_, _, _)
StatedUrl(rest, names, args) ==
    IF rest = <<>> THEN <<>>
    ELSE LET hits == {p \in names :
                        /\ Supplied(args, p)
                        /\ Len(rest) >= Len(p) + 2
                        /\ toLowerCase(SubSeq(rest, 1, Len(p) + 2))
                               = toLowerCase(<<"{">> \o p \o <<"}">>)}
         IN  IF hits # {}
             THEN LET p == CHOOSE q \in hits : TRUE
                  IN  JsString(NoHeap, args[p])
                      \o StatedUrl(SubSeq(rest, Len(p) + 3, Len(rest)), names, args)
             ELSE <<Head(rest)>> \o StatedUrl(Tail(rest), names, args)

\* C23: the URL of an issued request is the tool's path with every placeholder
\* of a declared path parameter whose argument is supplied and not null
\* replaced, whatever the case of its name, by the string form of the argument,
\* and with everything else, substituted text included, left as it is.
C23_PlaceholdersSubstituted ==
    \A i \in 1..MaxCalls :
        backend[i].sent =>
            backend[i].request.url
                = StatedUrl(tools[calls[i].tool].path,
                            NamesOf(tools[calls[i].tool].pathParamNames),
                            calls[i].args)

\* the names the tool declares: path and query parameters and body properties
DeclaredNames(tool) ==
    NamesOf(tool.pathParamNames) \cup NamesOf(tool.queryParamNames)
        \cup NamesOf(tool.bodyParamNames)

\* the arguments supplied under declared names
DeclaredArgs(tool, args) ==
    [p \in DOMAIN args \cap DeclaredNames(tool) |-> args[p]]

\* C24: the query map of an issued request holds exactly the declared query
\* names whose argument is supplied and not null, with the supplied values; the
\* request has a body exactly when a body property is declared, holding exactly
\* the declared body names that are supplied; and the arguments declared
\* nowhere change nothing in the request.
C24_QueryAndBody ==
    \A i \in 1..MaxCalls :
        backend[i].sent =>
            LET tool == tools[calls[i].tool]
                args == calls[i].args
                req  == backend[i].request
            IN  /\ DOMAIN req.params
                       = {p \in NamesOf(tool.queryParamNames) : Supplied(args, p)}
                /\ \A p \in DOMAIN req.params :
                       p \in DOMAIN args /\ req.params[p] = args[p]
                /\ req.data.present <=> Len(tool.bodyParamNames) > 0
                /\ DOMAIN req.data.fields
                       = NamesOf(tool.bodyParamNames) \cap DOMAIN args
                /\ \A p \in DOMAIN req.data.fields :
                       p \in DOMAIN args /\ req.data.fields[p] = args[p]
                /\ req = BuildRequest(tool, DeclaredArgs(tool, args)).request

\* the arguments without the one supplied as p
WithoutArg(args, p) == [q \in DOMAIN args \ {p} |-> args[q]]

\* the places the argument p of invocation i is transmitted in: the path (the
\* URL is another one without the argument), the query map, the body
PlacesOf(i, p) ==
    LET tool == tools[calls[i].tool]
        req  == backend[i].request
    IN  (IF SubstitutePathParams(tool.path, tool.pathParamNames, 1,
                                 WithoutArg(calls[i].args, p)).url # req.url
         THEN {"path"} ELSE {})
        \cup (IF p \in DOMAIN req.params THEN {"query"} ELSE {})
        \cup (IF p \in DOMAIN req.data.fields THEN {"body"} ELSE {})

\* C26: every supplied argument of an issued request is transmitted in at most
\* one of the path, the query map and the body, and an argument whose name is
\* both a body property and a declared query or path parameter is not in the
\* body.
C26_ArgumentsPartitioned ==
    \A i \in 1..MaxCalls :
        backend[i].sent =>
            \A p \in DOMAIN calls[i].args :
                LET tool == tools[calls[i].tool]
                IN  /\ Cardinality(PlacesOf(i, p)) <= 1
                    /\ p \in NamesOf(tool.pathParamNames) \cup NamesOf(tool.queryParamNames)
                           => "body" \notin PlacesOf(i, p)

\* C27: an issued request carries the method of the operation its tool was
\* compiled from and that operation's normalized path with the placeholders
\* substituted, for every tool of the list, method-suffixed ones included.
C27_HandlerBoundToOperation ==
    \A i \in 1..MaxCalls :
        backend[i].sent =>
            LET tool  == tools[calls[i].tool]
                entry == spec.paths[tool.op.id[1]]
            IN  /\ HasMethod(entry.item, tool.op.id[2])
                /\ OperationOf(entry.item, tool.op.id[2]) = tool.op
                /\ backend[i].request.method = tool.op.id[2]
                /\ backend[i].request.url
                       = SubstitutePathParams(normPath(entry.key), tool.pathParamNames,
                                              1, calls[i].args).url

\* the tool c_put, method-suffixed, issues a PUT to /c, the path of c_get too
C27_Witness ==
    /\ backend[1].sent
    /\ tools[calls[1].tool].name = <<"c", "_">> \o PUT
    /\ backend[1].request.method = PUT
    /\ backend[1].request.url = <<"/", "c">>
    /\ \E k \in ToolIndexes : tools[k].name = <<"c", "_">> \o GET

(***************************************************************************)
(* Claims about the instructions, checked under SpecInstructions.          *)
(***************************************************************************)
\* a text that is null, undefined or empty
Absent(text) == text \in {Null, Undefined, Str(<<>>)}

\* the text, an absent one given as null
Given(text) == IF Absent(text) THEN Null ELSE text

\* first, a blank line, second; one of them alone when the other is absent;
\* null when both are
Joined(first, second) ==
    IF Absent(first) THEN Given(second)
    ELSE IF Absent(second) THEN first
    ELSE Str(first.s \o <<"\n", "\n">> \o second.s)

HeaderSetFor(r) ==
    requests[r].responseId = NoId /\ requests'[r].responseId # NoId

\* the request r is received in this step, bearing the header
ReceivedWith(r, header) ==
    /\ requests[r].pc = "idle"
    /\ requests'[r].pc # "idle"
    /\ requests'[r].header = header

\* the requests without header whose response gave out the id, their pair open
GivenOutBy(id) ==
    {q \in 1..MaxRequests :
        /\ id # NoId
        /\ requests[q].header = NoId
        /\ requests[q].responseId = id
        /\ ~ pairs[requests[q].pair].transportClosed}

\* C28: when the response of a request without header, whose pair the sweep
\* has not closed, sets the header to S, the map then holds that pair under S
\* and nothing under the temporary id; and a request received with the header
\* S of such a response reuses that pair, refreshes its lastAccess and creates
\* no pair.
C28_SessionContinuity ==
    [][ /\ \A r \in 1..MaxRequests :
              (/\ HeaderSetFor(r)
               /\ requests[r].header = NoId
               /\ ~ pairs[requests[r].pair].transportClosed)
              => /\ requests'[r].responseId \in DOMAIN sessions'
                 /\ sessions'[requests'[r].responseId].pair = requests[r].pair
                 /\ TempId(r) \notin DOMAIN sessions'
        /\ \A r \in 1..MaxRequests : \A q \in 1..MaxRequests :
              (/\ q \in GivenOutBy(requests[q].responseId)
               /\ ReceivedWith(r, requests[q].responseId))
              => /\ requests'[r].reused
                 /\ requests'[r].pair = requests[q].pair
                 /\ pairs' = pairs
                 /\ requests[q].responseId \in DOMAIN sessions'
                 /\ sessions'[requests[q].responseId].idle = 0
      ]_vars

\* the pair p is the pair of an entry of the session map
Stored(p) == \E k \in DOMAIN sessions : sessions[k].pair = p

\* the server and the transport of the pair p have been closed
Closed(p) == pairs[p].serverClosed /\ pairs[p].transportClosed

\* C29: whatever the interleaving, every pair whose request has gone past
\* storing it is in the session map or has been closed, and two requests with
\* the same header, both past storing, their entry neither moved nor swept,
\* share one pair.
C29_NoPairLost ==
    /\ \A p \in 1..MaxRequests :
          (pairs[p].created /\ requests[p].pc # "connecting")
              => Stored(p) \/ Closed(p)
    /\ \A r \in 1..MaxRequests : \A q \in 1..MaxRequests :
          (/\ requests[r].pc \in {"handling", "done"}
           /\ requests[q].pc \in {"handling", "done"}
           /\ requests[r].header = requests[q].header
           /\ requests[r].header # NoId
           /\ requests[r].actualSessionId = requests[r].header
           /\ requests[q].actualSessionId = requests[q].header
           /\ ~ Closed(requests[r].pair)
           /\ ~ Closed(requests[q].pair))
          => requests[r].pair = requests[q].pair

\* the pair p is closed after the step
ClosedNext(p) == pairs'[p].serverClosed /\ pairs'[p].transportClosed

\* the pair p is the pair of an entry of the session map after the step
StoredNext(p) == \E k \in DOMAIN sessions' : sessions'[k].pair = p

\* the pairs of the sessions whose lastAccess is more than the timeout back
Overdue == {sessions[k].pair : k \in {j \in DOMAIN sessions : sessions[j].idle > SESSION_TIMEOUT}}

\* the sessions the step takes off the map, by their pairs
Dropped == {p \in 1..MaxRequests : Stored(p) /\ ~ StoredNext(p)}

\* the pairs the step closes
ClosedByStep == {p \in 1..MaxRequests : ClosedNext(p) /\ ~ Closed(p)}

\* C30: a step that takes a session off the map or closes a pair takes off
\* exactly the sessions whose lastAccess is more than the timeout back and
\* closes the server and the transport of exactly those, so that no session
\* within the timeout is ever removed; a request received with the id of a
\* session resets its lastAccess; and while the timer keeps firing every entry
\* of the map, temporary ones included, is eventually removed from it,
\* requests being finitely many.
C30_SessionExpiry ==
    /\ [][ /\ (Dropped # {} \/ ClosedByStep # {})
               => Dropped = Overdue /\ ClosedByStep = Overdue
           /\ \A r \in 1..MaxRequests : \A k \in DOMAIN sessions :
                 ReceivedWith(r, k)
                     => k \in DOMAIN sessions' /\ sessions'[k].idle = 0
         ]_vars
    /\ \A k \in {StaleId} \cup {TempId(r) : r \in 1..MaxRequests}
                \cup {Sid(r) : r \in 1..MaxRequests} :
          (k \in DOMAIN sessions) ~> (k \notin DOMAIN sessions)

=========================================================================
